---- MODULE Spec2Model ----
(***************************************************************************)
(* A model of backend/course_scraper.py (CourseScraper): link              *)
(* classification, the artifact downloader, the per-course crawl and the   *)
(* course record updater.                                                  *)
(*                                                                         *)
(* Python strings are TLA+ strings; TLC evaluates Len, \o, SubSeq, Head    *)
(* and Tail on them, so substring tests, lower-casing, basename and        *)
(* sanitising are computed character by character as the code does.        *)
(***************************************************************************)
EXTENDS Integers, Sequences, FiniteSets, TLC

VARIABLES
    cl_in,          \* classify harness: the (text, href, url) triple of the call
    cl_out,         \* classify harness: what classify_link returned, NotCalled before
    scraped_urls,   \* CourseScraper.scraped_urls
    books_dir,      \* files of data/books: name -> [src, complete]
    clock,          \* int(time.time())
    net_log,        \* history: every session.get issued, in order
    dl_calls,       \* history: every download_file call, in order
    writes,         \* history: every file name opened for writing, in order
    pc,             \* position inside scrape_course
    course,         \* the course dict being scraped
    results,        \* the results dict of scrape_course
    urls_to_try,    \* scrape_course local
    cand,           \* index of the candidate the for loop is at
    links,          \* scrape_course local: links of the landing page
    li,             \* index into links (landing pass / fan-out inner loop)
    pg,             \* index into common_pages (fan-out outer loop)
    sub_links,      \* links of the sub-page being merged
    si,             \* index into sub_links
    fetch_calls,    \* history: every fetch_page call of this crawl, in order
    site,           \* the landing page the course's web server serves
    content,        \* updater: text of the course file, as its lines
    upd_results,    \* updater: the results dict handed to update_course_file
    n_updates,      \* updater: how many times update_course_file ran
    data_dir,       \* batch: the state of the data directory on disk
    course_files,   \* batch: the *.txt files of data/courses, in glob order
    limit,          \* batch: the limit argument: <<>> is None, <<n>> the int n
    courses,        \* batch: scrape_all_courses local (the loaded course dicts)
    bpc,            \* batch: position inside main / scrape_all_courses
    bi,             \* batch: index of the course the for loop is at
    results_summary,\* batch: scrape_all_courses local
    batch_log,      \* batch history: calls made and errors logged, in order
    sched_pc,       \* scheduler: position inside scraper_scheduler.main
    day,            \* scheduler: days elapsed since the scheduler started
    runs,           \* scheduler history: the days on which run_scraper was started
    server,         \* retry harness: what the server does at each attempt
    attempts,       \* retry harness: the attempts session.get made, in order
    fetch_ret       \* retry harness: what fetch_page returned, NotCalled before

classifyVars == <<cl_in, cl_out>>
storeVars == <<books_dir, clock, net_log, dl_calls, writes>>
crawlVars == <<scraped_urls, pc, course, results, urls_to_try, cand, links, li,
               pg, sub_links, si, fetch_calls, site>>
updateVars == <<content, upd_results, n_updates>>
batchVars == <<data_dir, course_files, limit, courses, bpc, bi, results_summary, batch_log>>
schedVars == <<sched_pc, day, runs>>
retryVars == <<server, attempts, fetch_ret>>
vars == <<cl_in, cl_out, books_dir, clock, net_log, dl_calls, writes,
          scraped_urls, pc, course, results, urls_to_try, cand, links, li,
          pg, sub_links, si, fetch_calls, site, content, upd_results, n_updates,
          data_dir, course_files, limit, courses, bpc, bi, results_summary, batch_log,
          sched_pc, day, runs, server, attempts, fetch_ret>>

NoValue == "<None>"     \* Python's None
NotCalled == "<not called>"   \* link_type before classify_link has returned

(***************************************************************************)
(* String helpers (str methods and operators of Python).  Bind gives an    *)
(* expression the value semantics of a Python local: it is evaluated once. *)
(***************************************************************************)
Bind(x, F(_)) == CHOOSE r \in {F(v) : v \in {x}} : TRUE

UpperAlpha == "ABCDEFGHIJKLMNOPQRSTUVWXYZ"
LowerAlpha == "abcdefghijklmnopqrstuvwxyz"
Digits == "0123456789"

Chr(s, i) == SubSeq(s, i, i)

\* the positions at which sub occurs in s
Occurrences(s, sub) ==
    Bind(s, LAMBDA v : Bind(sub, LAMBDA w :
        {i \in 1..(Len(v) - Len(w) + 1) : SubSeq(v, i, i + Len(w) - 1) = w}))

\* sub in s
Contains(s, sub) == Occurrences(s, sub) # {}

\* c in s, for a one-character c
CharIn(c, s) == Contains(s, c)

\* s.startswith(p), s.endswith(p)
StartsWith(s, p) ==
    Bind(s, LAMBDA v : Bind(p, LAMBDA w : Len(w) <= Len(v) /\ SubSeq(v, 1, Len(w)) = w))
EndsWith(s, p) ==
    Bind(s, LAMBDA v : Bind(p, LAMBDA w :
        Len(w) <= Len(v) /\ SubSeq(v, Len(v) - Len(w) + 1, Len(v)) = w))

\* s.find(sub) + 1: the first position of sub in s, 0 when absent
Find(s, sub) ==
    Bind(Occurrences(s, sub), LAMBDA hits :
        IF hits = {} THEN 0 ELSE CHOOSE i \in hits : \A j \in hits : i <= j)

\* s.rfind(sub) + 1
RFind(s, sub) ==
    Bind(Occurrences(s, sub), LAMBDA hits :
        IF hits = {} THEN 0 ELSE CHOOSE i \in hits : \A j \in hits : i >= j)

\* s[i:] and s[:i] (1-based, i included in the first and excluded from the second)
From(s, i) == Bind(s, LAMBDA v : SubSeq(v, i, Len(v)))
Upto(s, i) == SubSeq(s, 1, i - 1)

\* the characters of s
CharsOf(s) == {Chr(s, i) : i \in 1..Len(s)}

UpperChars == CharsOf(UpperAlpha)
LowerOf == [c \in UpperChars |-> Chr(LowerAlpha, Find(UpperAlpha, c))]
LowerChar(c) == IF c \in UpperChars THEN LowerOf[c] ELSE c

\* s.lower()
RECURSIVE LowerAt(_, _)
LowerAt(v, i) ==
    IF i > Len(v) THEN "" ELSE LowerChar(Chr(v, i)) \o LowerAt(v, i + 1)
Lower(s) == Bind(s, LAMBDA v : LowerAt(v, 1))

\* sep.join(parts)
RECURSIVE JoinAt(_, _, _)
JoinAt(sep, v, i) ==
    IF i > Len(v) THEN ""
    ELSE IF i = Len(v) THEN v[i]
    ELSE v[i] \o sep \o JoinAt(sep, v, i + 1)
Join(sep, parts) == Bind(parts, LAMBDA v : JoinAt(sep, v, 1))

\* x in seq (list membership by value)
InList(x, seq) == \E i \in 1..Len(seq) : seq[i] = x

(***************************************************************************)
(* Module constants of course_scraper.py.                                  *)
(***************************************************************************)
REQUEST_DELAY == 2
PDF_EXTENSIONS == {".pdf"}
HOMEWORK_KEYWORDS ==
    {"homework", "hw", "assignment", "assign", "problem set", "pset",
     "lab", "project", "exercise", "exercises"}
RECITATION_KEYWORDS == {"recitation", "rec", "tutorial", "section", "review"}
TEXTBOOK_KEYWORDS ==
    {"textbook", "book", "required reading", "reading", "reference",
     "course book", "required text"}
LECTURE_KEYWORDS ==
    {"lecture", "lectures", "notes", "slides", "presentation", "class notes"}

\* any(kw in s for kw in KW)
AnyKw(s, KW) == \E kw \in KW : Contains(s, kw)
\* any(kw in a or kw in b for kw in KW)
AnyKw2(a, b, KW) == \E kw \in KW : Contains(a, kw) \/ Contains(b, kw)

\* The category enumeration of ClassifiedLink.
Categories ==
    {"textbook", "textbook_pdf", "homework", "homework_pdf", "recitation",
     "recitation_pdf", "lecture", "lecture_pdf", "pdf", "other"}

(***************************************************************************)
(* urljoin(base, href) for the shapes of href the model's pages use: an    *)
(* absolute URL, a path from the root, a path relative to the base's       *)
(* directory.                                                              *)
(***************************************************************************)
HasScheme(u) == StartsWith(u, "http://") \/ StartsWith(u, "https://")

\* scheme://netloc of an absolute URL
Origin(u) ==
    Bind(u, LAMBDA v :
    Bind(Find(v, "://") + 3, LAMBDA a :
    Bind(Find(From(v, a), "/"), LAMBDA k :
        IF k = 0 THEN v ELSE SubSeq(v, 1, a + k - 2))))

\* the URL up to and including the last "/" of its path
BaseDir(u) ==
    Bind(u, LAMBDA v :
    Bind(Origin(v), LAMBDA o :
    Bind(From(v, Len(o) + 1), LAMBDA rest :
    Bind(RFind(rest, "/"), LAMBDA k :
        IF k = 0 THEN o \o "/" ELSE o \o SubSeq(rest, 1, k)))))

urljoin(base, href) ==
    Bind(href, LAMBDA h :
        IF HasScheme(h) THEN h
        ELSE IF StartsWith(h, "/") THEN Origin(base) \o h
        ELSE BaseDir(base) \o h)

(***************************************************************************)
(* CourseScraper.classify_link                                             *)
(***************************************************************************)
\* mutant: the PDF rule is tested after the keyword rules
classify_link_pdfLast(text, href, url) ==
    Bind(Lower(text), LAMBDA text_lower :
    Bind(Lower(href), LAMBDA href_lower :
    Bind(Lower(url), LAMBDA url_lower :
        IF AnyKw2(text_lower, href_lower, HOMEWORK_KEYWORDS) THEN "homework"
        ELSE IF AnyKw2(text_lower, href_lower, RECITATION_KEYWORDS) THEN "recitation"
        ELSE IF AnyKw2(text_lower, href_lower, TEXTBOOK_KEYWORDS) THEN "textbook"
        ELSE IF AnyKw2(text_lower, href_lower, LECTURE_KEYWORDS) THEN "lecture"
        ELSE IF \E ext \in PDF_EXTENSIONS : Contains(url_lower, ext) THEN "pdf"
        ELSE "other")))

\* mutant: the final "return 'other'" is missing, the function falls off its end
classify_link_noDefault(text, href, url) ==
    Bind(Lower(text), LAMBDA text_lower :
    Bind(Lower(href), LAMBDA href_lower :
    Bind(Lower(url), LAMBDA url_lower :
        IF \E ext \in PDF_EXTENSIONS : Contains(url_lower, ext)
        THEN IF AnyKw(text_lower, TEXTBOOK_KEYWORDS) THEN "textbook_pdf"
             ELSE IF AnyKw(text_lower, HOMEWORK_KEYWORDS) THEN "homework_pdf"
             ELSE IF AnyKw(text_lower, RECITATION_KEYWORDS) THEN "recitation_pdf"
             ELSE IF AnyKw(text_lower, LECTURE_KEYWORDS) THEN "lecture_pdf"
             ELSE "pdf"
        ELSE IF AnyKw2(text_lower, href_lower, HOMEWORK_KEYWORDS) THEN "homework"
        ELSE IF AnyKw2(text_lower, href_lower, RECITATION_KEYWORDS) THEN "recitation"
        ELSE IF AnyKw2(text_lower, href_lower, TEXTBOOK_KEYWORDS) THEN "textbook"
        ELSE IF AnyKw2(text_lower, href_lower, LECTURE_KEYWORDS) THEN "lecture"
        ELSE NoValue)))

\* mutant: the textbook rule is tested before the homework and recitation rules
classify_link_textbookFirst(text, href, url) ==
    Bind(Lower(text), LAMBDA text_lower :
    Bind(Lower(href), LAMBDA href_lower :
    Bind(Lower(url), LAMBDA url_lower :
        IF \E ext \in PDF_EXTENSIONS : Contains(url_lower, ext)
        THEN IF AnyKw(text_lower, TEXTBOOK_KEYWORDS) THEN "textbook_pdf"
             ELSE IF AnyKw(text_lower, HOMEWORK_KEYWORDS) THEN "homework_pdf"
             ELSE IF AnyKw(text_lower, RECITATION_KEYWORDS) THEN "recitation_pdf"
             ELSE IF AnyKw(text_lower, LECTURE_KEYWORDS) THEN "lecture_pdf"
             ELSE "pdf"
        ELSE IF AnyKw2(text_lower, href_lower, TEXTBOOK_KEYWORDS) THEN "textbook"
        ELSE IF AnyKw2(text_lower, href_lower, HOMEWORK_KEYWORDS) THEN "homework"
        ELSE IF AnyKw2(text_lower, href_lower, RECITATION_KEYWORDS) THEN "recitation"
        ELSE IF AnyKw2(text_lower, href_lower, LECTURE_KEYWORDS) THEN "lecture"
        ELSE "other")))

classify_link(text, href, url) ==
    Bind(Lower(text), LAMBDA text_lower :
    Bind(Lower(href), LAMBDA href_lower :
    Bind(Lower(url), LAMBDA url_lower :
        IF \E ext \in PDF_EXTENSIONS : Contains(url_lower, ext)
        THEN IF AnyKw(text_lower, TEXTBOOK_KEYWORDS) THEN "textbook_pdf"
             ELSE IF AnyKw(text_lower, HOMEWORK_KEYWORDS) THEN "homework_pdf"
             ELSE IF AnyKw(text_lower, RECITATION_KEYWORDS) THEN "recitation_pdf"
             ELSE IF AnyKw(text_lower, LECTURE_KEYWORDS) THEN "lecture_pdf"
             ELSE "pdf"
        ELSE IF AnyKw2(text_lower, href_lower, HOMEWORK_KEYWORDS) THEN "homework"
        ELSE IF AnyKw2(text_lower, href_lower, RECITATION_KEYWORDS) THEN "recitation"
        ELSE IF AnyKw2(text_lower, href_lower, TEXTBOOK_KEYWORDS) THEN "textbook"
        ELSE IF AnyKw2(text_lower, href_lower, LECTURE_KEYWORDS) THEN "lecture"
        ELSE "other")))

(***************************************************************************)
(* CourseScraper.find_all_links.  A page is the sequence of its <a>/<link> *)
(* tags, each [text |-> tag.get_text(strip=True), href |-> tag['href']].   *)
(* A link dict is [url, text, type, href, local_filename]; the key         *)
(* local_filename is absent from the dict exactly when the field is        *)
(* NoValue.                                                                *)
(***************************************************************************)
MakeLink(tag, base_url) ==
    Bind(urljoin(base_url, tag.href), LAMBDA full_url :
    Bind(Lower(tag.text), LAMBDA text :
        [url |-> full_url,
         text |-> tag.text,
         type |-> classify_link(text, tag.href, full_url),
         href |-> tag.href,
         local_filename |-> NoValue]))

RECURSIVE LinksFrom(_, _, _)
LinksFrom(soup, base_url, i) ==
    IF i > Len(soup) THEN <<>>
    ELSE IF soup[i].href = "" THEN LinksFrom(soup, base_url, i + 1)
    ELSE <<MakeLink(soup[i], base_url)>> \o LinksFrom(soup, base_url, i + 1)
find_all_links(soup, base_url) == LinksFrom(soup, base_url, 1)


(***************************************************************************)
(* CourseScraper.download_file                                             *)
(***************************************************************************)
\* urlparse(url).path: what follows the netloc, without fragment, query and
\* the ;parameters of the last path segment
UrlPath(url) ==
    Bind(url, LAMBDA u :
    Bind(From(u, Len(Origin(u)) + 1), LAMBDA rest :
    Bind(Find(rest, "#"), LAMBDA h :
    Bind(IF h = 0 THEN rest ELSE Upto(rest, h), LAMBDA r1 :
    Bind(Find(r1, "?"), LAMBDA q :
    Bind(IF q = 0 THEN r1 ELSE Upto(r1, q), LAMBDA r2 :
    Bind(RFind(r2, "/"), LAMBDA sl :
    Bind(Find(From(r2, sl + 1), ";"), LAMBDA sc :
        IF sc = 0 THEN r2 ELSE Upto(r2, sl + sc)))))))))

\* os.path.basename(path)
Basename(path) == Bind(path, LAMBDA p : From(p, RFind(p, "/") + 1))

\* str(n) for n >= 0
RECURSIVE IntToStr(_)
IntToStr(n) ==
    IF n < 10 THEN Chr(Digits, n + 1)
    ELSE IntToStr(n \div 10) \o Chr(Digits, (n % 10) + 1)

\* re.sub(r'[^\w\-_\.]', '_', filename)
SafeChars == CharsOf(UpperAlpha \o LowerAlpha \o Digits \o "-_.")
IsSafeChar(c) == c \in SafeChars

RECURSIVE SanitizeAt(_, _)
SanitizeAt(v, i) ==
    IF i > Len(v) THEN ""
    ELSE (IF IsSafeChar(Chr(v, i)) THEN Chr(v, i) ELSE "_") \o SanitizeAt(v, i + 1)
Sanitize(s) == Bind(s, LAMBDA v : SanitizeAt(v, 1))

\* lines 230-242: the file name download_file stores the URL under
TargetName(url, course_code, link_type, now) ==
    Bind(Basename(UrlPath(url)), LAMBDA base :
    Bind(IF base = "" \/ ~Contains(base, ".")
         THEN course_code \o "_" \o link_type \o "_" \o IntToStr(now) \o ".pdf"
         ELSE base, LAMBDA f1 :
    Bind(Sanitize(f1), LAMBDA f2 :
        IF EndsWith(link_type, "_pdf") /\ ~EndsWith(f2, ".pdf") THEN f2 \o ".pdf" ELSE f2)))

FileExists(books, name) == \E f \in books : f.name = name

\* What the server answers to session.get(url, stream=True):
\*   status  "ok", or "error" (raise_for_status or the request itself raises)
\*   pdf     the content-type header contains "pdf"
\*   stream  "ok", or "broken" (iter_content/write raises after the file was opened)
DownloadResponses ==
    {[status |-> "error", pdf |-> FALSE, stream |-> "ok"],
     [status |-> "ok", pdf |-> TRUE, stream |-> "ok"],
     [status |-> "ok", pdf |-> TRUE, stream |-> "broken"],
     [status |-> "ok", pdf |-> FALSE, stream |-> "ok"]}

GetEvent(kind, url) == [ev |-> "get", kind |-> kind, url |-> url]
SleepEvent == [ev |-> "sleep", kind |-> "", url |-> ""]

\* The outcome of one call: ret (the return value), books (data/books after
\* it), events (session.get and time.sleep, in order), wrote (names opened for
\* writing), clock (the time after it).  now is the time of the call, dt the
\* seconds the request takes.
\* response is what the call received: "none" (no request was issued),
\* "error", or the kind of the content-type header ("pdf", "other").
DlOutcome(ret, filename, existed, books, events, wrote, clock_after, response) ==
    [ret |-> ret, filename |-> filename, existed |-> existed, books |-> books,
     events |-> events, wrote |-> wrote, clock |-> clock_after, response |-> response]

\* 'pdf' in content_type
ContentType(resp) == IF resp.pdf THEN "pdf" ELSE "other"

\* mutant: the "Skip if already exists" test is missing
download_file_noSkip(url, course_code, link_type, resp, books, now, dt) ==
    Bind(TargetName(url, course_code, link_type, now), LAMBDA filename :
    LET get == <<GetEvent("download", url)>>
        others == {f \in books : f.name # filename}
    IN  IF resp.status = "error"
        THEN DlOutcome(NoValue, filename, FALSE, books, get, <<>>, now + dt, "error")
        ELSE IF resp.pdf \/ EndsWith(url, ".pdf")
        THEN IF resp.stream = "ok"
             THEN DlOutcome(filename, filename, FALSE,
                            others \cup {[name |-> filename, src |-> url, complete |-> TRUE]},
                            get \o <<SleepEvent>>, <<filename>>, now + dt + REQUEST_DELAY,
                            ContentType(resp))
             ELSE DlOutcome(NoValue, filename, FALSE,
                            others \cup {[name |-> filename, src |-> url, complete |-> FALSE]},
                            get, <<filename>>, now + dt, ContentType(resp))
        ELSE DlOutcome(NoValue, filename, FALSE, books, get, <<>>, now + dt, ContentType(resp)))

\* mutant: the content-type test is missing, every good response is stored
download_file_anyContent(url, course_code, link_type, resp, books, now, dt) ==
    Bind(TargetName(url, course_code, link_type, now), LAMBDA filename :
    LET get == <<GetEvent("download", url)>>
        others == {f \in books : f.name # filename}
    IN  IF FileExists(books, filename)
        THEN DlOutcome(filename, filename, TRUE, books, <<>>, <<>>, now, "none")
        ELSE IF resp.status = "error"
        THEN DlOutcome(NoValue, filename, FALSE, books, get, <<>>, now + dt, "error")
        ELSE IF TRUE
        THEN IF resp.stream = "ok"
             THEN DlOutcome(filename, filename, FALSE,
                            others \cup {[name |-> filename, src |-> url, complete |-> TRUE]},
                            get \o <<SleepEvent>>, <<filename>>, now + dt + REQUEST_DELAY,
                            ContentType(resp))
             ELSE DlOutcome(NoValue, filename, FALSE,
                            others \cup {[name |-> filename, src |-> url, complete |-> FALSE]},
                            get, <<filename>>, now + dt, ContentType(resp))
        ELSE DlOutcome(NoValue, filename, FALSE, books, get, <<>>, now + dt, ContentType(resp)))

download_file(url, course_code, link_type, resp, books, now, dt) ==
    Bind(TargetName(url, course_code, link_type, now), LAMBDA filename :
    LET get == <<GetEvent("download", url)>>
        others == {f \in books : f.name # filename}
    IN  IF FileExists(books, filename)
        THEN DlOutcome(filename, filename, TRUE, books, <<>>, <<>>, now, "none")
        ELSE IF resp.status = "error"
        THEN DlOutcome(NoValue, filename, FALSE, books, get, <<>>, now + dt, "error")
        ELSE IF resp.pdf \/ EndsWith(url, ".pdf")
        THEN IF resp.stream = "ok"
             THEN DlOutcome(filename, filename, FALSE,
                            others \cup {[name |-> filename, src |-> url, complete |-> TRUE]},
                            get \o <<SleepEvent>>, <<filename>>, now + dt + REQUEST_DELAY,
                            ContentType(resp))
             ELSE DlOutcome(NoValue, filename, FALSE,
                            others \cup {[name |-> filename, src |-> url, complete |-> FALSE]},
                            get, <<filename>>, now + dt, ContentType(resp))
        ELSE DlOutcome(NoValue, filename, FALSE, books, get, <<>>, now + dt, ContentType(resp)))

\* seconds a request may take (rounded down)
Elapsed == {0, 1}

\* the entry dl_calls keeps of a call
DlCall(url, link_type, d) ==
    [url |-> url, type |-> link_type, filename |-> d.filename,
     existed |-> d.existed, ret |-> d.ret, response |-> d.response,
     wrote |-> d.wrote # <<>>]

\* the effect of a download_file call on the store and the histories
StoreAfter(url, link_type, d) ==
    /\ books_dir' = d.books
    /\ clock' = d.clock
    /\ net_log' = net_log \o d.events
    /\ writes' = writes \o d.wrote
    /\ dl_calls' = Append(dl_calls, DlCall(url, link_type, d))

(***************************************************************************)
(* CourseScraper.fetch_page.  resp is what the server answers:             *)
(*   status "ok"           the page was received and parsed                *)
(*          "error"        session.get or raise_for_status raised          *)
(*          "parse_error"  both BeautifulSoup parsers raised               *)
(* The result: ok (a soup was returned), soup (its tags), requested (a     *)
(* session.get was issued), visited (scraped_urls after the call), events. *)
(***************************************************************************)
FetchOutcome(ok, soup, requested, visited, events) ==
    [ok |-> ok, soup |-> soup, requested |-> requested, visited |-> visited,
     events |-> events]

\* mutant: a URL whose request or parse failed is recorded as scraped too
fetch_page_addOnFail(url, resp, visited) ==
    IF url \in visited
    THEN FetchOutcome(FALSE, <<>>, FALSE, visited, <<>>)
    ELSE IF resp.status = "error"
    THEN FetchOutcome(FALSE, <<>>, TRUE, visited \cup {url}, <<GetEvent("page", url)>>)
    ELSE IF resp.status = "parse_error"
    THEN FetchOutcome(FALSE, <<>>, TRUE, visited \cup {url},
                      <<GetEvent("page", url), SleepEvent>>)
    ELSE FetchOutcome(TRUE, resp.page, TRUE, visited \cup {url},
                      <<GetEvent("page", url), SleepEvent>>)

\* mutant: a fetched URL is not recorded in scraped_urls
fetch_page_forgets(url, resp, visited) ==
    IF url \in visited
    THEN FetchOutcome(FALSE, <<>>, FALSE, visited, <<>>)
    ELSE IF resp.status = "error"
    THEN FetchOutcome(FALSE, <<>>, TRUE, visited, <<GetEvent("page", url)>>)
    ELSE IF resp.status = "parse_error"
    THEN FetchOutcome(FALSE, <<>>, TRUE, visited, <<GetEvent("page", url), SleepEvent>>)
    ELSE FetchOutcome(TRUE, resp.page, TRUE, visited, <<GetEvent("page", url), SleepEvent>>)

\* mutant: the "already scraped" test is missing
fetch_page_noSkip(url, resp, visited) ==
    IF resp.status = "error"
    THEN FetchOutcome(FALSE, <<>>, TRUE, visited, <<GetEvent("page", url)>>)
    ELSE IF resp.status = "parse_error"
    THEN FetchOutcome(FALSE, <<>>, TRUE, visited, <<GetEvent("page", url), SleepEvent>>)
    ELSE FetchOutcome(TRUE, resp.page, TRUE, visited \cup {url},
                      <<GetEvent("page", url), SleepEvent>>)

fetch_page(url, resp, visited) ==
    IF url \in visited
    THEN FetchOutcome(FALSE, <<>>, FALSE, visited, <<>>)
    ELSE IF resp.status = "error"
    THEN FetchOutcome(FALSE, <<>>, TRUE, visited, <<GetEvent("page", url)>>)
    ELSE IF resp.status = "parse_error"
    THEN FetchOutcome(FALSE, <<>>, TRUE, visited, <<GetEvent("page", url), SleepEvent>>)
    ELSE FetchOutcome(TRUE, resp.page, TRUE, visited \cup {url},
                      <<GetEvent("page", url), SleepEvent>>)

\* the seconds slept in a sequence of events
RECURSIVE SleptIn(_)
SleptIn(events) ==
    IF events = <<>> THEN 0
    ELSE (IF Head(events).ev = "sleep" THEN REQUEST_DELAY ELSE 0) + SleptIn(Tail(events))

\* the entry fetch_calls keeps of a call
FetchCall(phase, url, f) ==
    [phase |-> phase, url |-> url, requested |-> f.requested, ok |-> f.ok]

(***************************************************************************)
(* CourseScraper.try_alternative_urls                                      *)
(***************************************************************************)
DigitChars == CharsOf(Digits)
IsDigit(c) == c \in DigitChars

\* re.search(r'(\d{2})-(\d{3})', course_code): where the first match starts, 0 if none
CourseNumMatch(course_code) ==
    Bind(course_code, LAMBDA v :
    Bind({i \in 1..(Len(v) - 5) :
             /\ IsDigit(Chr(v, i)) /\ IsDigit(Chr(v, i + 1))
             /\ Chr(v, i + 2) = "-"
             /\ IsDigit(Chr(v, i + 3)) /\ IsDigit(Chr(v, i + 4)) /\ IsDigit(Chr(v, i + 5))},
         LAMBDA hits :
             IF hits = {} THEN 0 ELSE CHOOSE i \in hits : \A j \in hits : i <= j))

\* mutant: the "~0XXX" variant is built from the department number
try_alternative_urls_dept(course_code, original_url) ==
    Bind(CourseNumMatch(course_code), LAMBDA m :
        IF m = 0 THEN <<original_url>>
        ELSE Bind(SubSeq(course_code, m, m + 1), LAMBDA dept_num :
             Bind(SubSeq(course_code, m + 3, m + 5), LAMBDA course_num :
                 <<original_url,
                   "https://www.cs.cmu.edu/~" \o course_num \o "/",
                   "https://www.cs.cmu.edu/~" \o dept_num \o course_num \o "/">>
                 \o (IF Len(course_num) = 3
                     THEN <<"https://www.cs.cmu.edu/~0" \o dept_num \o "/">>
                     ELSE <<>>))))

try_alternative_urls(course_code, original_url) ==
    Bind(CourseNumMatch(course_code), LAMBDA m :
        IF m = 0 THEN <<original_url>>
        ELSE Bind(SubSeq(course_code, m, m + 1), LAMBDA dept_num :
             Bind(SubSeq(course_code, m + 3, m + 5), LAMBDA course_num :
                 <<original_url,
                   "https://www.cs.cmu.edu/~" \o course_num \o "/",
                   "https://www.cs.cmu.edu/~" \o dept_num \o course_num \o "/">>
                 \o (IF Len(course_num) = 3
                     THEN <<"https://www.cs.cmu.edu/~0" \o course_num \o "/">>
                     ELSE <<>>))))

(***************************************************************************)
(* CourseScraper.scrape_course                                             *)
(***************************************************************************)
\* lines 304-313
EmptyResults(course_code, original_url) ==
    [code |-> course_code, url |-> original_url, textbooks |-> <<>>,
     recitations |-> <<>>, homeworks |-> <<>>, lectures |-> <<>>,
     other_links |-> <<>>, errors |-> <<>>]

\* lines 320-330: where the candidate loop goes after fetch_page returned
\* mutant: no break, the loop goes on after a page was returned
AfterCandidate_noBreak(ok, i, n) ==
    IF i < n THEN "candidates" ELSE IF ok THEN "landing" ELSE "failed"

AfterCandidate(ok, i, n) ==
    IF ok THEN "landing" ELSE IF i < n THEN "candidates" ELSE "failed"

\* line 329
\* mutant: the message names the recorded URL only
FetchFailedError_original(urls) ==
    "Failed to fetch main page. Tried: " \o urls[1]

FetchFailedError(urls) ==
    "Failed to fetch main page. Tried: " \o Join(", ", urls)

\* line 341: is the landing-page link handed to download_file
\* mutant: every link that is not 'other' is downloaded
ShouldDownload_anyType(link_type, link_url) ==
    \/ link_type # "other"
    \/ (Contains(Lower(link_url), ".pdf") /\ link_type = "other")

ShouldDownload(link_type, link_url) ==
    \/ EndsWith(link_type, "_pdf")
    \/ (Contains(Lower(link_url), ".pdf") /\ link_type = "other")

\* lines 343-344
Reclassified(link_type, link_url) ==
    IF Contains(Lower(link_url), ".pdf") /\ link_type = "other" THEN "pdf" ELSE link_type

\* lines 351-373: the key of results the landing-page link is appended to
\* mutant: an unclassified PDF is not looked at again
Bucket_noRescan(link_type, link) ==
    IF \/ link_type = "textbook" \/ link_type = "textbook_pdf"
       \/ (EndsWith(link_type, "_pdf") /\ Contains(Lower(link.text), "book"))
    THEN "textbooks"
    ELSE IF link_type = "recitation" \/ link_type = "recitation_pdf" THEN "recitations"
    ELSE IF link_type = "homework" \/ link_type = "homework_pdf" THEN "homeworks"
    ELSE IF link_type = "lecture" \/ link_type = "lecture_pdf" THEN "lectures"
    ELSE "other_links"

Bucket(link_type, link) ==
    IF \/ link_type = "textbook" \/ link_type = "textbook_pdf"
       \/ (EndsWith(link_type, "_pdf") /\ Contains(Lower(link.text), "book"))
    THEN "textbooks"
    ELSE IF link_type = "recitation" \/ link_type = "recitation_pdf" THEN "recitations"
    ELSE IF link_type = "homework" \/ link_type = "homework_pdf" THEN "homeworks"
    ELSE IF link_type = "lecture" \/ link_type = "lecture_pdf" THEN "lectures"
    ELSE IF EndsWith(link_type, "_pdf") \/ Contains(Lower(link.url), ".pdf")
    THEN Bind(Lower(link.text \o " " \o link.url), LAMBDA link_lower :
             IF AnyKw(link_lower, HOMEWORK_KEYWORDS) THEN "homeworks"
             ELSE IF AnyKw(link_lower, RECITATION_KEYWORDS) THEN "recitations"
             ELSE IF AnyKw(link_lower, TEXTBOOK_KEYWORDS) THEN "textbooks"
             ELSE IF AnyKw(link_lower, LECTURE_KEYWORDS) THEN "lectures"
             ELSE "other_links")
    ELSE "other_links"

\* lines 377-378
common_pages ==
    <<"syllabus", "schedule", "assignments", "homework", "hw",
      "recitations", "lectures", "notes", "textbook", "books">>

\* line 382: the page names (as indices of common_pages) the link matches
PagesMatching(link) ==
    Bind(Lower(link.href), LAMBDA href_lower :
    Bind(Lower(link.text), LAMBDA text_lower :
        {p \in 1..Len(common_pages) :
            Contains(href_lower, common_pages[p]) \/ Contains(text_lower, common_pages[p])}))

\* lines 380-382: the (page_name, link) iterations after iteration (p, l) whose
\* test at line 382 holds
MatchesAfter(lks, p, l) ==
    UNION {{<<q, k>> : q \in {q \in PagesMatching(lks[k]) : q > p \/ (q = p /\ k > l)}} :
           k \in 1..Len(lks)}

\* the first of them in loop order
FirstPair(prs) ==
    CHOOSE pr \in prs : \A o \in prs : pr[1] < o[1] \/ (pr[1] = o[1] /\ pr[2] <= o[2])

\* line 390: is the sub-page link handed to download_file
SubShouldDownload(sub_type) == EndsWith(sub_type, "_pdf")

\* lines 396-404: the key of results a sub-page link is merged into, "" if none
\* mutant: lecture links are merged as in the landing-page pass
SubBucket_lectures(sub_type) ==
    IF sub_type = "textbook" \/ sub_type = "textbook_pdf" THEN "textbooks"
    ELSE IF sub_type = "recitation" \/ sub_type = "recitation_pdf" THEN "recitations"
    ELSE IF sub_type = "homework" \/ sub_type = "homework_pdf" THEN "homeworks"
    ELSE IF sub_type = "lecture" \/ sub_type = "lecture_pdf" THEN "lectures"
    ELSE ""

SubBucket(sub_type) ==
    IF sub_type = "textbook" \/ sub_type = "textbook_pdf" THEN "textbooks"
    ELSE IF sub_type = "recitation" \/ sub_type = "recitation_pdf" THEN "recitations"
    ELSE IF sub_type = "homework" \/ sub_type = "homework_pdf" THEN "homeworks"
    ELSE ""

\* results[key].append(link)
\* mutant: the link is appended to other_links as well
AppendTo_alsoOther(res, key, link) ==
    IF key = "other_links" THEN [res EXCEPT ![key] = Append(@, link)]
    ELSE [res EXCEPT ![key] = Append(@, link), !.other_links = Append(@, link)]

AppendTo(res, key, link) == [res EXCEPT ![key] = Append(@, link)]

(***************************************************************************)
(* CourseScraper.update_course_file.  A text is kept as text.split("\n"):  *)
(* the non-empty sequence of its lines, the last one being what follows    *)
(* the last newline ("" when the text ends in a newline).                  *)
(***************************************************************************)
\* a + b, for two texts
TextCat(a, b) ==
    SubSeq(a, 1, Len(a) - 1) \o <<a[Len(a)] \o b[1]>> \o SubSeq(b, 2, Len(b))

Newline == <<"", "">>

Rule80(c) ==
    LET c10 == c \o c \o c \o c \o c \o c \o c \o c \o c \o c
    IN c10 \o c10 \o c10 \o c10 \o c10 \o c10 \o c10 \o c10

\* lines 425-431, 441-447, 457-463: the lines of one entry of a section
EntryLines(link) ==
    (IF link.local_filename # NoValue THEN <<"Local PDF: " \o link.local_filename>> ELSE <<>>)
    \o <<"URL: " \o link.url>>
    \o (IF link.text # "" THEN <<"Title: " \o link.text>> ELSE <<>>)
    \o <<"">>

RECURSIVE EntriesFrom(_, _)
EntriesFrom(entries, i) ==
    IF i > Len(entries) THEN <<>>
    ELSE EntryLines(entries[i]) \o EntriesFrom(entries, i + 1)

\* lines 423-436, 439-452, 455-468: a section and the "" appended after it
Section(title, entries) ==
    <<title, Rule80("-")>>
    \o (IF entries # <<>> THEN EntriesFrom(entries, 1) ELSE <<"None found">>)
    \o <<"">>

\* lines 420-468
Sections(res) ==
    Section("BOOKS AND TEXTBOOKS:", res.textbooks)
    \o Section("RECITATIONS:", res.recitations)
    \o Section("HOMEWORKS AND ASSIGNMENTS:", res.homeworks)

\* line 472, re.search(r'(Course URL:.*?\n)', content): the line the first
\* match lies on (a line that is followed by a newline), 0 if there is none
CourseUrlLine(text) ==
    Bind({i \in 1..(Len(text) - 1) : Contains(text[i], "Course URL:")}, LAMBDA hits :
        IF hits = {} THEN 0 ELSE CHOOSE i \in hits : \A j \in hits : i <= j)

\* lines 481-485
Footer(res, now_iso) ==
    <<"", Rule80("="),
      "Last Scraped: " \o now_iso,
      "Total Textbooks Found: " \o IntToStr(Len(res.textbooks)),
      "Total Recitations Found: " \o IntToStr(Len(res.recitations)),
      "Total Homeworks Found: " \o IntToStr(Len(res.homeworks)),
      "">>

\* lines 470-485: new_content
NewContent(text, res, now_iso) ==
    Bind(CourseUrlLine(text), LAMBDA m :
        TextCat(TextCat(TextCat(TextCat(
            IF m # 0 THEN SubSeq(text, 1, m) \o <<"">> ELSE text,
            Newline), Sections(res)), Newline), Footer(res, now_iso)))

(***************************************************************************)
(* Values of the variables a specification does not use.                   *)
(***************************************************************************)
ClassifyIdle == cl_in = [text |-> "", href |-> "", url |-> ""] /\ cl_out = NotCalled
StoreIdle ==
    books_dir = {} /\ clock = 0 /\ net_log = <<>> /\ dl_calls = <<>> /\ writes = <<>>
CrawlIdle ==
    /\ scraped_urls = {} /\ pc = "idle" /\ course = [code |-> "", url |-> ""]
    /\ results = EmptyResults("", "")
    /\ urls_to_try = <<>> /\ cand = 0 /\ links = <<>> /\ li = 0 /\ pg = 0
    /\ sub_links = <<>> /\ si = 0 /\ fetch_calls = <<>> /\ site = <<>>
UpdateIdle == content = <<"">> /\ upd_results = EmptyResults("", "") /\ n_updates = 0
BatchIdle ==
    /\ data_dir = "ok" /\ course_files = <<>> /\ limit = <<>> /\ courses = <<>>
    /\ bpc = "idle" /\ bi = 0 /\ batch_log = <<>>
    /\ results_summary = [total |-> 0, successful |-> 0, failed |-> 0, total_textbooks |-> 0,
                          total_recitations |-> 0, total_homeworks |-> 0]
SchedIdle == sched_pc = "idle" /\ day = 0 /\ runs = <<>>
RetryIdle == server = <<>> /\ attempts = <<>> /\ fetch_ret = NotCalled

(***************************************************************************)
(* SpecClassify: classify_link as find_all_links calls it (lines 172-178), *)
(* on link texts of up to MaxWords words and the hrefs below.              *)
(***************************************************************************)
MaxWords == 2

TextWords ==
    {"Homework 3", "HW", "Textbook", "Book", "Reading", "Recitation",
     "Slides", "Syllabus", "Recommended", "(PDF)", "Home"}

RECURSIVE TextsUpTo(_)
TextsUpTo(n) ==
    IF n = 0 THEN {""}
    ELSE LET P == TextsUpTo(n - 1)
         IN P \cup {IF p = "" THEN w ELSE p \o " " \o w : p \in P, w \in TextWords}

ClassifyHrefs ==
    {"/hw/hw3.pdf", "doc3.pdf", "DOC3.PDF", "page.html", "textbook.html",
     "x.pdf.html", "view?f=a.pdf", "https://pdf.example.org/.pdfs/", "/HW/index.html", ""}

ClassifyBases == {"https://cs.example.edu/course/", "https://www.cs.cmu.edu/~213/index.html"}

InitClassify ==
    /\ \E t \in TextsUpTo(MaxWords), h \in ClassifyHrefs, b \in ClassifyBases :
          cl_in = [text |-> t, href |-> h, url |-> urljoin(b, h)]
    /\ cl_out = NotCalled
    /\ StoreIdle /\ CrawlIdle /\ UpdateIdle
    /\ BatchIdle /\ SchedIdle /\ RetryIdle

\* text = tag.get_text(strip=True).lower(); link_type = classify_link(text, href, full_url)
ClassifyCall ==
    /\ cl_out = NotCalled
    /\ cl_out' = classify_link(Lower(cl_in.text), cl_in.href, cl_in.url)
    /\ UNCHANGED <<cl_in, storeVars, crawlVars, updateVars, batchVars, schedVars, retryVars>>

NextClassify == ClassifyCall

SpecClassify == InitClassify /\ [][NextClassify]_vars

(***************************************************************************)
(* Claims about classify_link (under SpecClassify).                        *)
(***************************************************************************)
ClassifyReturned == cl_out # NotCalled

\* the URL of the call ends in .pdf (in any letter case)
UrlEndsInPdf == EndsWith(Lower(cl_in.url), ".pdf")
TextHasHomeworkKw == \E kw \in HOMEWORK_KEYWORDS : Contains(Lower(cl_in.text), kw)
TextHasTextbookKw == \E kw \in TEXTBOOK_KEYWORDS : Contains(Lower(cl_in.text), kw)

\* C1 (as stated): a link whose URL ends in .pdf and whose text contains a
\* homework keyword is classified homework_pdf, also when the text contains a
\* textbook keyword as well.
C1_Original ==
    (ClassifyReturned /\ UrlEndsInPdf /\ TextHasHomeworkKw) => cl_out = "homework_pdf"

\* C1 (amended): a link whose URL ends in .pdf and whose text contains a
\* homework keyword and no textbook keyword is classified homework_pdf; when
\* the text contains a textbook keyword too it is classified textbook_pdf.
C1_HomeworkPdf ==
    (ClassifyReturned /\ UrlEndsInPdf /\ TextHasHomeworkKw) =>
        cl_out = IF TextHasTextbookKw THEN "textbook_pdf" ELSE "homework_pdf"

C1_Witness ==
    /\ ClassifyReturned /\ UrlEndsInPdf /\ TextHasHomeworkKw /\ ~TextHasTextbookKw
    /\ cl_out = "homework_pdf"

\* C2: classify_link is total: every call returns a value, and the value is a
\* member of the ten-element category enumeration.
C2_Total == ClassifyReturned => cl_out \in Categories

\* the call that reaches the last rule: no keyword, no .pdf
C2_Witness == ClassifyReturned /\ cl_out = "other" /\ cl_in.text # ""


(***************************************************************************)
(* SpecDownload: any sequence of up to MaxCalls download_file calls on a   *)
(* content store that may hold files of an earlier run.                    *)
(***************************************************************************)
MaxCalls == 2

DlUrls ==
    {"https://cs.example.edu/a/hw1.pdf", "https://cs.example.edu/b/hw1.pdf",
     "https://cs.example.edu/course/notes", "https://cs.example.edu/a/My Book.PDF"}
DlTypes == {"homework_pdf", "pdf"}
DlCourse == "15-213"
EarlierRun == "<earlier run>"

InitDownload ==
    /\ books_dir \in {{}, {[name |-> "hw1.pdf", src |-> EarlierRun, complete |-> TRUE]}}
    /\ clock = 1000
    /\ net_log = <<>> /\ dl_calls = <<>> /\ writes = <<>>
    /\ ClassifyIdle /\ CrawlIdle /\ UpdateIdle
    /\ BatchIdle /\ SchedIdle /\ RetryIdle

DownloadCall ==
    /\ Len(dl_calls) < MaxCalls
    /\ \E url \in DlUrls, link_type \in DlTypes, resp \in DownloadResponses, dt \in Elapsed :
          \E d \in {download_file(url, DlCourse, link_type, resp, books_dir, clock, dt)} :
              StoreAfter(url, link_type, d)
    /\ UNCHANGED <<classifyVars, crawlVars, updateVars, batchVars, schedVars, retryVars>>

NextDownload == DownloadCall

SpecDownload == InitDownload /\ [][NextDownload]_vars

(***************************************************************************)
(* Claims about download_file (under SpecDownload).                        *)
(***************************************************************************)
NoDuplicates(seq) == \A i, j \in 1..Len(seq) : seq[i] = seq[j] => i = j

\* C4: a download whose target file name already exists in the content store
\* issues no request, leaves the store unchanged and returns that name; and
\* over any sequence of calls no name is written twice.
C4_ShortCircuit ==
    [][ /\ Len(dl_calls') = Len(dl_calls) + 1 =>
             LET call == dl_calls'[Len(dl_calls')]
             IN (\E f \in books_dir : f.name = call.filename) =>
                    /\ net_log' = net_log
                    /\ books_dir' = books_dir
                    /\ writes' = writes
                    /\ call.ret = call.filename
        /\ NoDuplicates(writes') ]_vars

\* a call found its target in the store, after an earlier call had written it
C4_Witness ==
    \E i, j \in 1..Len(dl_calls) :
        /\ i < j
        /\ ~dl_calls[i].existed /\ dl_calls[i].ret = dl_calls[i].filename
        /\ dl_calls[j].existed /\ dl_calls[j].ret = dl_calls[i].filename
        /\ writes = <<dl_calls[i].filename>>


(***************************************************************************)
(* SpecCrawl: one scrape_course call of a fresh CourseScraper, on a course *)
(* web site whose requests may fail up to MaxFailures times.               *)
(***************************************************************************)
MaxFailures == 4

Courses ==
    {[code |-> "15-213", url |-> "https://www.cs.cmu.edu/~213/"],
     [code |-> "15-122", url |-> "https://cs.example.edu/course/"]}

Tag(text, href) == [text |-> text, href |-> href]

\* the landing pages a course site may serve
LandingPages ==
    {<<>>,
     <<Tag("Homework 3 (PDF)", "/hw/hw3.pdf"), Tag("Recommended Textbook", "book.html")>>,
     <<Tag("Homework", "hw/"), Tag("Paper", "paper.pdf"), Tag("Slides", "slides.pdf")>>,
     <<Tag("Course Book", "book.pdf"), Tag("", ""), Tag("Schedule", "schedule.html")>>,
     <<Tag("Slides", "slides.pdf"), Tag("Slides (download)", "slides.pdf?download=1"),
       Tag("Homework 1", "HW1.PDF")>>,
     <<Tag("Homework 2", "hw2.pdf"), Tag("Solutions", "hw/sol1.pdf"),
       Tag("Paper", "paper.pdf")>>}

\* the page behind a link of a landing page
SubPageOf(url) ==
    IF EndsWith(url, "/hw/")
    THEN <<Tag("Homework 3 (PDF)", "/hw/hw3.pdf"), Tag("Paper", "paper.pdf"),
           Tag("Lecture 1", "lec1.html")>>
    ELSE IF EndsWith(url, "/book.html")
    THEN <<Tag("Course Book", "book.pdf"), Tag("Recitation 2", "rec2.pdf")>>
    ELSE IF EndsWith(url, "/schedule.html")
    THEN <<Tag("Homework", "hw/"), Tag("Home", "index.html"),
           Tag("Course Book", "book.pdf")>>
    ELSE <<>>

\* requests that failed so far: fetches that returned no page, downloads that
\* returned no file name
Failures ==
    Cardinality({i \in 1..Len(fetch_calls) : fetch_calls[i].requested /\ ~fetch_calls[i].ok})
    + Cardinality({i \in 1..Len(dl_calls) : dl_calls[i].ret = NoValue})

\* how many requests may fail: up to MaxFailures in a single crawl, none when
\* the crawls of a batch are compared (the web answers every request alike)
FailureBudget == IF bpc = "idle" THEN MaxFailures ELSE 0

PageResponses(page) ==
    {[status |-> "ok", page |-> page]}
    \cup (IF Failures < FailureBudget
          THEN {[status |-> "error", page |-> <<>>], [status |-> "parse_error", page |-> <<>>]}
          ELSE {})

CrawlDownloadResponses ==
    {r \in DownloadResponses : Failures < FailureBudget \/ (r.pdf /\ r.stream = "ok")}

InitCrawl ==
    /\ course \in Courses
    /\ site \in LandingPages
    /\ scraped_urls = {}
    /\ books_dir = {}
    /\ clock = 1000
    /\ net_log = <<>> /\ dl_calls = <<>> /\ writes = <<>>
    /\ pc = "idle" /\ results = EmptyResults("", "")
    /\ urls_to_try = <<>> /\ cand = 0 /\ links = <<>> /\ li = 0 /\ pg = 0
    /\ sub_links = <<>> /\ si = 0 /\ fetch_calls = <<>>
    /\ ClassifyIdle /\ UpdateIdle
    /\ BatchIdle /\ SchedIdle /\ RetryIdle

\* lines 297-318
StartCrawl ==
    /\ pc = "idle"
    /\ results' = EmptyResults(course.code, course.url)
    /\ urls_to_try' = try_alternative_urls(course.code, course.url)
    /\ cand' = 1
    /\ pc' = "candidates"
    /\ UNCHANGED <<scraped_urls, course, links, li, pg, sub_links, si, fetch_calls, site,
                   storeVars, classifyVars, updateVars, batchVars, schedVars, retryVars>>

\* the effect of a fetch_page call on the scraper and the histories
FetchedAs(phase, url, f) ==
    /\ scraped_urls' = f.visited
    /\ net_log' = net_log \o f.events
    /\ clock' = clock + SleptIn(f.events)
    /\ fetch_calls' = Append(fetch_calls, FetchCall(phase, url, f))

\* lines 320-333: one iteration of the candidate loop; after the last one,
\* the "if not soup" return
FetchCandidate ==
    /\ pc = "candidates"
    /\ \E resp \in PageResponses(site) :
       \E f \in {fetch_page(urls_to_try[cand], resp, scraped_urls)} :
       \E to \in {AfterCandidate(f.ok, cand, Len(urls_to_try))} :
          /\ FetchedAs("candidate", urls_to_try[cand], f)
          /\ results' =
                IF f.ok THEN [results EXCEPT !.url = urls_to_try[cand]]
                ELSE IF to = "failed"
                THEN [results EXCEPT !.errors = Append(@, FetchFailedError(urls_to_try))]
                ELSE results
          /\ links' = IF to = "landing" THEN find_all_links(f.soup, urls_to_try[cand])
                      ELSE links
          /\ cand' = IF to = "candidates" THEN cand + 1 ELSE cand
          /\ li' = IF to = "landing" THEN 1 ELSE li
          /\ pc' = IF to = "failed" THEN "done" ELSE to
    /\ UNCHANGED <<course, urls_to_try, pg, sub_links, si, site, books_dir, dl_calls,
                   writes, classifyVars, updateVars, batchVars, schedVars, retryVars>>

\* lines 336-373: one iteration of the landing-page loop
ProcessLink ==
    /\ pc = "landing" /\ li <= Len(links)
    /\ LET link == links[li] IN
       IF ShouldDownload(link.type, link.url)
       THEN \E resp \in CrawlDownloadResponses, dt \in Elapsed :
            \E link_type \in {Reclassified(link.type, link.url)} :
            \E d \in {download_file(link.url, course.code, link_type, resp,
                                    books_dir, clock, dt)} :
            \E done \in {IF d.ret # NoValue
                         THEN [link EXCEPT !.local_filename = d.ret,
                                           !.type = link_type \o "_pdf"]
                         ELSE link} :
               /\ StoreAfter(link.url, link_type, d)
               /\ links' = [links EXCEPT ![li] = done]
               /\ results' = AppendTo(results, Bucket(link_type, done), done)
       ELSE /\ results' = AppendTo(results, Bucket(link.type, link), link)
            /\ UNCHANGED <<links, storeVars>>
    /\ li' = li + 1
    /\ UNCHANGED <<pc, scraped_urls, course, urls_to_try, cand, pg, sub_links, si,
                   fetch_calls, site, classifyVars, updateVars, batchVars, schedVars, retryVars>>

\* line 380: the landing-page loop is over, the sub-page fan-out begins
BeginFanOut ==
    /\ pc = "landing" /\ li > Len(links)
    /\ pc' = "fanout" /\ pg' = 1 /\ li' = 0
    /\ UNCHANGED <<scraped_urls, course, results, urls_to_try, cand, links, sub_links,
                   si, fetch_calls, site, storeVars, classifyVars, updateVars, batchVars, schedVars, retryVars>>

\* lines 380-387: the loops advance to the next link that matches a page
\* name, and the link is fetched
FanOutFetch ==
    /\ pc = "fanout"
    /\ \E prs \in {MatchesAfter(links, pg, li)} :
          /\ prs # {}
          /\ \E pr \in {FirstPair(prs)} :
             \E url \in {links[pr[2]].url} :
             \E resp \in PageResponses(SubPageOf(url)) :
             \E f \in {fetch_page(url, resp, scraped_urls)} :
             \E found \in {IF f.ok THEN find_all_links(f.soup, url) ELSE <<>>} :
                /\ FetchedAs("subpage", url, f)
                /\ pg' = pr[1] /\ li' = pr[2]
                /\ sub_links' = found
                /\ si' = 1
                /\ pc' = IF found # <<>> THEN "sublinks" ELSE "fanout"
    /\ UNCHANGED <<course, results, urls_to_try, cand, links, site, books_dir,
                   dl_calls, writes, classifyVars, updateVars, batchVars, schedVars, retryVars>>

\* lines 388-404: one iteration of the sub-page's loop
MergeSubLink ==
    /\ pc = "sublinks" /\ si <= Len(sub_links)
    /\ LET sub_link == sub_links[si]
           sub_type == sub_link.type
       IN
       IF SubShouldDownload(sub_type)
       THEN \E resp \in CrawlDownloadResponses, dt \in Elapsed :
            \E d \in {download_file(sub_link.url, course.code, sub_type, resp,
                                    books_dir, clock, dt)} :
            \E done \in {IF d.ret # NoValue
                         THEN [sub_link EXCEPT !.local_filename = d.ret]
                         ELSE sub_link} :
            \E key \in {SubBucket(sub_type)} :
               /\ StoreAfter(sub_link.url, sub_type, d)
               /\ sub_links' = [sub_links EXCEPT ![si] = done]
               /\ results' = IF key # "" /\ ~InList(done, results[key])
                             THEN AppendTo(results, key, done) ELSE results
       ELSE \E key \in {SubBucket(sub_type)} :
               /\ results' = IF key # "" /\ ~InList(sub_link, results[key])
                             THEN AppendTo(results, key, sub_link) ELSE results
               /\ UNCHANGED <<sub_links, storeVars>>
    /\ si' = si + 1
    /\ pc' = IF si = Len(sub_links) THEN "fanout" ELSE "sublinks"
    /\ UNCHANGED <<scraped_urls, course, urls_to_try, cand, links, li, pg,
                   fetch_calls, site, classifyVars, updateVars, batchVars, schedVars, retryVars>>

\* lines 406-410: no link is left to fan out to, the results are returned
FinishCrawl ==
    /\ pc = "fanout"
    /\ MatchesAfter(links, pg, li) = {}
    /\ pc' = "done"
    /\ UNCHANGED <<scraped_urls, course, results, urls_to_try, cand, links, li, pg,
                   sub_links, si, fetch_calls, site, storeVars, classifyVars, updateVars, batchVars, schedVars, retryVars>>

NextCrawl ==
    \/ StartCrawl
    \/ FetchCandidate
    \/ ProcessLink
    \/ BeginFanOut
    \/ FanOutFetch
    \/ MergeSubLink
    \/ FinishCrawl

SpecCrawl == InitCrawl /\ [][NextCrawl]_vars


(***************************************************************************)
(* SpecAlternatives: try_alternative_urls on every course code DD-DDD over *)
(* the digits below (load_course_files, line 111, admits no other form).   *)
(***************************************************************************)
CodeDigits == {"0", "1", "5", "9"}

CourseCodes ==
    {a \o b \o "-" \o c \o d \o e : a \in CodeDigits, b \in CodeDigits, c \in CodeDigits,
                                    d \in CodeDigits, e \in CodeDigits}
    \cup {"15-213"}

RecordedUrls == {"https://www.cs.cmu.edu/~213/", "http://course.example.edu/15213-f24/"}

InitAlternatives ==
    /\ course \in [code : CourseCodes, url : RecordedUrls]
    /\ pc = "idle" /\ urls_to_try = <<>>
    /\ scraped_urls = {} /\ results = EmptyResults("", "")
    /\ cand = 0 /\ links = <<>> /\ li = 0 /\ pg = 0
    /\ sub_links = <<>> /\ si = 0 /\ fetch_calls = <<>> /\ site = <<>>
    /\ StoreIdle /\ ClassifyIdle /\ UpdateIdle
    /\ BatchIdle /\ SchedIdle /\ RetryIdle

\* line 316
AlternativesCall ==
    /\ pc = "idle"
    /\ urls_to_try' = try_alternative_urls(course.code, course.url)
    /\ pc' = "candidates"
    /\ UNCHANGED <<scraped_urls, course, results, cand, links, li, pg, sub_links, si,
                   fetch_calls, site, storeVars, classifyVars, updateVars, batchVars, schedVars, retryVars>>

NextAlternatives == AlternativesCall

SpecAlternatives == InitAlternatives /\ [][NextAlternatives]_vars

(***************************************************************************)
(* Claims about try_alternative_urls (under SpecAlternatives).             *)
(***************************************************************************)
CmuRoot == "https://www.cs.cmu.edu/~"

\* C8: for a course code DD-DDD and recorded URL u the candidates are, in
\* order, u, then ~DDD/, ~DDDDD/ and ~0DDD/ under https://www.cs.cmu.edu/;
\* 15-213 yields ~213/ and ~15213/.
C8_Candidates ==
    pc # "idle" =>
        /\ urls_to_try =
              <<course.url,
                CmuRoot \o SubSeq(course.code, 4, 6) \o "/",
                CmuRoot \o SubSeq(course.code, 1, 2) \o SubSeq(course.code, 4, 6) \o "/",
                CmuRoot \o "0" \o SubSeq(course.code, 4, 6) \o "/">>
        /\ course.code = "15-213" =>
              /\ urls_to_try[2] = "https://www.cs.cmu.edu/~213/"
              /\ urls_to_try[3] = "https://www.cs.cmu.edu/~15213/"

C8_Witness ==
    /\ pc # "idle" /\ course.code = "15-213"
    /\ course.url = "http://course.example.edu/15213-f24/"
    /\ urls_to_try = <<"http://course.example.edu/15213-f24/", "https://www.cs.cmu.edu/~213/",
                       "https://www.cs.cmu.edu/~15213/", "https://www.cs.cmu.edu/~0213/">>

(***************************************************************************)
(* Claims about scrape_course (under SpecCrawl).                           *)
(***************************************************************************)
\* the fetch_page calls of the candidate loop, in order
CandidateFetches == SelectSeq(fetch_calls, LAMBDA c : c.phase = "candidate")
SubPageFetches == SelectSeq(fetch_calls, LAMBDA c : c.phase = "subpage")
\* the URLs of the page requests issued, in order
PageGets == SelectSeq(net_log, LAMBDA e : e.ev = "get" /\ e.kind = "page")

\* C3 (as stated): within one scrape_course no URL has a page request issued
\* for it more than once, also when its earlier fetch failed.
C3_Original == \A i, j \in 1..Len(PageGets) : PageGets[i].url = PageGets[j].url => i = j

\* C3 (amended): within one scrape_course, once a fetch of a URL has returned
\* a page no further page request is issued for that URL, however often the
\* URL is reached again.
C3_NoRefetchAfterSuccess ==
    /\ \A i, j \in 1..Len(fetch_calls) :
          (i < j /\ fetch_calls[i].url = fetch_calls[j].url /\ fetch_calls[i].ok)
              => ~fetch_calls[j].requested
    /\ Len(PageGets) = Cardinality({i \in 1..Len(fetch_calls) : fetch_calls[i].requested})

\* a fetched sub-page is reached again through a second page name, and skipped
C3_Witness ==
    \E i, j \in 1..Len(fetch_calls) :
        /\ i < j /\ fetch_calls[i].url = fetch_calls[j].url
        /\ fetch_calls[i].phase = "subpage"
        /\ fetch_calls[i].ok /\ ~fetch_calls[j].requested

AllCandidatesFailed ==
    /\ pc = "done"
    /\ \A i \in 1..Len(CandidateFetches) : ~CandidateFetches[i].ok

\* C5: when every candidate fails, the result has five empty lists and an
\* errors list naming every candidate; nothing is downloaded and no sub-page
\* is fetched.
C5_AllFail ==
    AllCandidatesFailed =>
        /\ results.textbooks = <<>> /\ results.recitations = <<>>
        /\ results.homeworks = <<>> /\ results.lectures = <<>>
        /\ results.other_links = <<>>
        /\ results.errors # <<>>
        /\ \A k \in 1..Len(urls_to_try) :
              \E e \in 1..Len(results.errors) : Contains(results.errors[e], urls_to_try[k])
        /\ Len(CandidateFetches) = Len(urls_to_try)
        /\ dl_calls = <<>>
        /\ SubPageFetches = <<>>

C5_Witness ==
    /\ AllCandidatesFailed
    /\ Len(CandidateFetches) = 4
    /\ Len(results.errors) = 1

\* C9: the candidates are fetched in list order, nothing is fetched after the
\* first one that returns a page, and that one is the result's URL.
C9_InOrder ==
    LET C == CandidateFetches IN
    /\ Len(C) <= Len(urls_to_try)
    /\ \A i \in 1..Len(C) : C[i].url = urls_to_try[i]
    /\ \A i \in 1..(Len(C) - 1) : ~C[i].ok
    /\ (Len(C) > 0 /\ C[Len(C)].ok) => results.url = urls_to_try[Len(C)]
    /\ (pc \in {"landing", "fanout", "sublinks"}) => (Len(C) > 0 /\ C[Len(C)].ok)

\* the second candidate answered after the first failed; the others were not tried
C9_Witness ==
    /\ pc = "done"
    /\ Len(CandidateFetches) = 2
    /\ ~CandidateFetches[1].ok /\ CandidateFetches[2].ok
    /\ urls_to_try[1] # urls_to_try[2]
    /\ results.url = urls_to_try[2]

PdfCategories == {"textbook_pdf", "homework_pdf", "recitation_pdf", "lecture_pdf", "pdf"}

\* every link of the pages seen so far
SeenLinks == {links[i] : i \in 1..Len(links)} \cup {sub_links[i] : i \in 1..Len(sub_links)}
IsRecommendedTextbook(link) ==
    link.text = "Recommended Textbook" /\ EndsWith(link.href, ".html")
Downloaded(url) == \E i \in 1..Len(dl_calls) : dl_calls[i].url = url

\* no download_file call is made for a link without .pdf in its URL and
\* without a PDF category, on the landing page or on a sub-page
NeverDownloaded ==
    \A i \in 1..Len(dl_calls) :
        Contains(Lower(dl_calls[i].url), ".pdf") \/ dl_calls[i].type \in PdfCategories

\* C10 (as stated): a link with no .pdf in its URL and no PDF category is
\* never passed to download_file; the link "Recommended Textbook" with an
\* .html href is such a link, classified textbook.
C10_Original ==
    /\ NeverDownloaded
    /\ \A link \in SeenLinks :
          IsRecommendedTextbook(link) => (link.type = "textbook" /\ ~Downloaded(link.url))

\* C10 (amended): a link with no .pdf in its URL and no PDF category is never
\* passed to download_file; the link "Recommended Textbook" with an .html href
\* is such a link, classified recitation ("rec" is a substring of
\* "recommended" and the recitation rule precedes the textbook rule).
C10_NeverDownloaded ==
    /\ NeverDownloaded
    /\ \A link \in SeenLinks :
          IsRecommendedTextbook(link) => (link.type = "recitation" /\ ~Downloaded(link.url))

\* the crawl is over, it downloaded a PDF and fetched the "Recommended
\* Textbook" page as a sub-page, and did not download that link
C10_Witness ==
    /\ pc = "done"
    /\ dl_calls # <<>>
    /\ \E i \in 1..Len(links) :
          /\ IsRecommendedTextbook(links[i])
          /\ InList(links[i], results.recitations)
          /\ \E k \in 1..Len(fetch_calls) :
                fetch_calls[k].url = links[i].url /\ fetch_calls[k].ok
          /\ ~Downloaded(links[i].url)


(***************************************************************************)
(* SpecUpdate: update_course_file applied up to MaxUpdates times to one    *)
(* course file with one and the same results dict.                         *)
(***************************************************************************)
MaxUpdates == 2

\* course files load_course_files accepts (a Course Code and a Course URL line)
CourseFiles ==
    {<<"Course Code: 15-213", "Course Name: Computer Systems",
       "Course URL: https://www.cs.cmu.edu/~213/", "Units: 12",
       "Description: Introduction to computer systems", "">>,
     <<"Course Code: 15-122", "Course URL: https://cs.example.edu/course/", "">>,
     <<"Course Code: 15-122", "Course URL: https://cs.example.edu/course/">>,
     <<"Notes: see Course URL: below", "Course Code: 15-451",
       "Course URL: https://www.cs.cmu.edu/~451/", "Units: 12">>,
     <<"Course Code: 15-410", "Course URL: https://www.cs.cmu.edu/~410/", "",
       "PREREQUISITES:", "15-213", "">>}

FoundLink(url, text, type, local_filename) ==
    [url |-> url, text |-> text, type |-> type, href |-> url,
     local_filename |-> local_filename]

CrawlResults ==
    {EmptyResults("15-213", "https://www.cs.cmu.edu/~213/"),
     [EmptyResults("15-213", "https://www.cs.cmu.edu/~213/") EXCEPT
        !.homeworks = <<FoundLink("https://www.cs.cmu.edu/hw/hw3.pdf", "Homework 3 (PDF)",
                                  "homework_pdf_pdf", "hw3.pdf")>>,
        !.recitations = <<FoundLink("https://www.cs.cmu.edu/~213/book.html",
                                    "Recommended Textbook", "recitation", NoValue)>>],
     [EmptyResults("15-122", "https://cs.example.edu/course/") EXCEPT
        !.textbooks = <<FoundLink("https://cs.example.edu/course/book.pdf", "",
                                  "textbook_pdf", NoValue)>>,
        !.errors = <<>>],
     [EmptyResults("15-410", "https://www.cs.cmu.edu/~410/") EXCEPT
        !.errors = <<FetchFailedError(<<"https://www.cs.cmu.edu/~410/">>)>>]}

\* datetime.now().isoformat()
Stamps == {"2026-01-05T02:00:07.120001", "2026-01-06T02:00:09.450002",
           "2026-01-07T02:00:08.000003"}

InitUpdate ==
    /\ content \in CourseFiles
    /\ upd_results \in CrawlResults
    /\ n_updates = 0
    /\ StoreIdle /\ CrawlIdle /\ ClassifyIdle
    /\ BatchIdle /\ SchedIdle /\ RetryIdle

\* lines 412-491: the file is read, rewritten and saved
UpdateCourseFile ==
    /\ n_updates < MaxUpdates
    /\ \E now_iso \in Stamps : content' = NewContent(content, upd_results, now_iso)
    /\ n_updates' = n_updates + 1
    /\ UNCHANGED <<upd_results, storeVars, crawlVars, classifyVars, batchVars, schedVars,
                   retryVars>>

\* lines 493-494: reading or writing the file raised, the file is as it was
UpdateFails ==
    /\ n_updates < MaxUpdates
    /\ UNCHANGED vars

NextUpdate == UpdateCourseFile \/ UpdateFails

SpecUpdate == InitUpdate /\ [][NextUpdate]_vars

(***************************************************************************)
(* Claims about update_course_file (under SpecUpdate).                     *)
(***************************************************************************)
CountLines(text, P(_)) == Cardinality({i \in 1..Len(text) : P(text[i])})
IsFooterLine(line) == StartsWith(line, "Last Scraped: ")
IsBooksTitle(line) == line = "BOOKS AND TEXTBOOKS:"

\* C6: the updater is append-only: after n updates with the same results the
\* record holds n summary blocks (n sets of sections, n "Last Scraped"
\* footers), two after two updates.
C6_AppendOnly ==
    /\ CountLines(content, IsFooterLine) = n_updates
    /\ CountLines(content, IsBooksTitle) = n_updates

\* C7: an update removes no text of the record: every line the record had
\* before the update is still in it after the update.
C7_KeepsLines ==
    [][n_updates' = n_updates + 1 =>
          \A i \in 1..Len(content) : InList(content[i], content')]_vars

(***************************************************************************)
(* More claims about classify_link (under SpecClassify).                   *)
(***************************************************************************)
\* the path of the URL of the call has the extension .pdf (in any letter case)
PathHasPdfExtension == EndsWith(Lower(UrlPath(cl_in.url)), ".pdf")

\* C20: classify_link returns a PDF category if and only if the path of the
\* resolved URL has the extension .pdf; ".pdf" in the query string, in the
\* host name or in the middle of the path does not make the link a PDF.
C20_PdfIffPathExtension ==
    ClassifyReturned => (cl_out \in PdfCategories <=> PathHasPdfExtension)

(***************************************************************************)
(* More claims about scrape_course and its calls (under SpecCrawl).        *)
(***************************************************************************)
\* the step is a fetch_page call
FetchStep == Len(fetch_calls') = Len(fetch_calls) + 1

\* C13: fetch_page changes scraped_urls only by adding the fetched URL, and
\* only when it returns a page; a call for a URL already scraped issues no
\* request; a call that returns None leaves scraped_urls as it was; nothing
\* else changes scraped_urls, which never shrinks.
C13_VisitedFrame ==
    [][ /\ scraped_urls \subseteq scraped_urls'
        /\ ~FetchStep => scraped_urls' = scraped_urls
        /\ FetchStep =>
              LET c == fetch_calls'[Len(fetch_calls')] IN
              /\ c.ok => scraped_urls' = scraped_urls \cup {c.url}
              /\ ~c.ok => scraped_urls' = scraped_urls
              /\ c.url \in scraped_urls =>
                    (~c.ok /\ ~c.requested /\ net_log' = net_log) ]_vars

\* a fetch failed and its URL is not in scraped_urls, another returned a page,
\* and a third call was skipped because its URL was in scraped_urls
C13_Witness ==
    \E i, j, k \in 1..Len(fetch_calls) :
        /\ fetch_calls[i].requested /\ ~fetch_calls[i].ok
        /\ fetch_calls[i].url \notin scraped_urls
        /\ fetch_calls[j].ok /\ fetch_calls[j].url \in scraped_urls
        /\ ~fetch_calls[k].requested /\ fetch_calls[k].url \in scraped_urls

BucketKeys == {"textbooks", "recitations", "homeworks", "lectures", "other_links"}
EntriesOf(key) == {results[key][i] : i \in 1..Len(results[key])}
BucketsHolding(link) == {key \in BucketKeys : link \in EntriesOf(key)}

\* C12: in the results of scrape_course every link entry (the dict that was
\* appended) is in at most one of the five lists, and every link the
\* landing-page loop has processed is in exactly one of them.
C12_OneBucket ==
    /\ \A k1, k2 \in BucketKeys : k1 # k2 => EntriesOf(k1) \cap EntriesOf(k2) = {}
    /\ \A i \in 1..Len(links) :
          (pc \in {"fanout", "sublinks", "done"} \/ (pc = "landing" /\ i < li))
              => Cardinality(BucketsHolding(links[i])) = 1

\* the crawl is over; two landing-page links went to different lists, and a
\* link of a sub-page that the landing page has too (same URL and text) was
\* put into the list that holds the landing-page link
C12_Witness ==
    /\ pc = "done"
    /\ \E i, j \in 1..Len(links) : BucketsHolding(links[i]) # BucketsHolding(links[j])
    /\ \E i \in 1..Len(links) : \E key \in BucketsHolding(links[i]) :
       \E e \in EntriesOf(key) :
          e # links[i] /\ e.url = links[i].url /\ e.text = links[i].text

IsGet(e) == e.ev = "get"
IsSleep(e) == e.ev = "sleep"
\* the downloads that wrote a file and returned its name
SuccessfulDownloads == {i \in 1..Len(dl_calls) : dl_calls[i].ret # NoValue /\ ~dl_calls[i].existed}
\* the download requests that were followed by the delay
DelayedDownloadGets ==
    {i \in 1..(Len(net_log) - 1) :
        IsGet(net_log[i]) /\ net_log[i].kind = "download" /\ IsSleep(net_log[i + 1])}

\* C15: every page fetch, successful or failed, and every successful download
\* is followed by the inter-request delay before the next request is issued:
\* no request of a page fetch is directly followed by another request.
C15_DelayAfterEveryFetch ==
    /\ \A i \in 1..(Len(net_log) - 1) :
          (IsGet(net_log[i]) /\ net_log[i].kind = "page") => IsSleep(net_log[i + 1])
    /\ Cardinality(DelayedDownloadGets) = Cardinality(SuccessfulDownloads)

\* line 257: 'pdf' in content_type or url.endswith('.pdf'), for the response of a call
PdfResponse(c) == c.response = "pdf" \/ EndsWith(c.url, ".pdf")
\* the links of the pages and of the results that carry a local_filename
AttachedLinks ==
    {l \in SeenLinks \cup UNION {EntriesOf(key) : key \in BucketKeys} :
        l.local_filename # NoValue}

\* C16 (as stated): download_file writes a file only if the response's
\* content-type contains "pdf" or the URL ends in .pdf; in every other case it
\* writes nothing and returns None, and no local_filename is attached to the
\* link.
C16_Original ==
    /\ \A i \in 1..Len(dl_calls) :
          /\ dl_calls[i].wrote => PdfResponse(dl_calls[i])
          /\ ~PdfResponse(dl_calls[i]) => (~dl_calls[i].wrote /\ dl_calls[i].ret = NoValue)
    /\ \A l \in AttachedLinks :
          \E i \in 1..Len(dl_calls) :
              dl_calls[i].url = l.url /\ dl_calls[i].ret = l.local_filename
                 /\ PdfResponse(dl_calls[i])

\* C16 (amended): download_file writes a file only if the response's
\* content-type contains "pdf" or the URL ends in .pdf; in every other case in
\* which a response was received it writes nothing and returns None and no
\* local_filename is attached; when the target file exists already no request
\* is issued, nothing is written and the existing name is returned and
\* attached, whatever the URL.
C16_WriteOnlyPdf ==
    /\ \A i \in 1..Len(dl_calls) :
          LET c == dl_calls[i] IN
          /\ c.wrote => PdfResponse(c)
          /\ (c.response # "none" /\ ~PdfResponse(c)) => (~c.wrote /\ c.ret = NoValue)
          /\ c.response = "none" <=> c.existed
          /\ c.existed => (~c.wrote /\ c.ret = c.filename)
    /\ Len(writes) = Cardinality({i \in 1..Len(dl_calls) : dl_calls[i].wrote})
    /\ \A f \in books_dir : InList(f.name, writes)
    /\ \A l \in AttachedLinks :
          \E i \in 1..Len(dl_calls) :
              /\ dl_calls[i].url = l.url /\ dl_calls[i].ret = l.local_filename
              /\ PdfResponse(dl_calls[i]) \/ dl_calls[i].existed

\* a response without a PDF content-type for a URL that does not end in .pdf
\* was discarded and its link carries no local_filename, and a response with
\* a PDF content-type for such a URL was stored
C16_Witness ==
    /\ \E i \in 1..Len(dl_calls) :
          /\ dl_calls[i].response = "other" /\ ~EndsWith(dl_calls[i].url, ".pdf")
          /\ dl_calls[i].ret = NoValue /\ ~dl_calls[i].wrote
          /\ \E l \in SeenLinks : l.url = dl_calls[i].url /\ l.local_filename = NoValue
    /\ \E j \in 1..Len(dl_calls) :
          /\ dl_calls[j].response = "pdf" /\ ~EndsWith(dl_calls[j].url, ".pdf")
          /\ dl_calls[j].wrote /\ dl_calls[j].ret = dl_calls[j].filename

(***************************************************************************)
(* More claims about download_file (under SpecDownload).                   *)
(***************************************************************************)
\* C17: artifact naming is collision-safe: calls for two distinct URLs that
\* both return a name return two distinct names, and a call never returns
\* the name of a file whose content was written from a different URL.
C17_CollisionSafe ==
    /\ \A i, j \in 1..Len(dl_calls) :
          (/\ dl_calls[i].url # dl_calls[j].url
           /\ dl_calls[i].ret # NoValue /\ dl_calls[j].ret # NoValue)
              => dl_calls[i].ret # dl_calls[j].ret
    /\ \A i \in 1..Len(dl_calls) : \A f \in books_dir :
          (dl_calls[i].ret = f.name /\ f.src # EarlierRun) => f.src = dl_calls[i].url

(***************************************************************************)
(* CourseScraper.load_course_files.  The data directory is in one of the   *)
(* states                                                                  *)
(*   "ok"              data/ and data/courses exist and can be listed      *)
(*   "missing"         data/ does not exist                                *)
(*   "no_courses_dir"  data/ exists, data/courses does not                 *)
(*   "unreadable"      data/courses exists but may not be listed: glob     *)
(*                     yields no file and raises nothing                   *)
(* A course file is [name, readable, content], content being the lines of  *)
(* its text.                                                               *)
(***************************************************************************)
IsSpace(c) == c \in {" ", "\n", "\t", "\r"}

RECURSIVE SkipSpaces(_, _)
SkipSpaces(v, i) == IF i <= Len(v) /\ IsSpace(Chr(v, i)) THEN SkipSpaces(v, i + 1) ELSE i

RECURSIVE SkipNonSpaces(_, _)
SkipNonSpaces(v, i) ==
    IF i <= Len(v) /\ ~IsSpace(Chr(v, i)) THEN SkipNonSpaces(v, i + 1) ELSE i

\* \d{2}-\d{3} matches at position j of v
IsCodeAt(v, j) == j + 5 <= Len(v) /\ CourseNumMatch(SubSeq(v, j, j + 5)) = 1

\* https?://[^\s]+ at position j of v: the position after the match, 0 if none
UrlEndAt(v, j) ==
    Bind(IF SubSeq(v, j, j + 6) = "http://" THEN j + 7
         ELSE IF SubSeq(v, j, j + 7) = "https://" THEN j + 8 ELSE 0, LAMBDA k :
        IF k = 0 \/ SkipNonSpaces(v, k) = k THEN 0 ELSE SkipNonSpaces(v, k))

\* the least element of a set of positions, 0 if it is empty
FirstOf(hits) == IF hits = {} THEN 0 ELSE CHOOSE i \in hits : \A j \in hits : i <= j

\* re.search(r'Course Code:\s*(\d{2}-\d{3})', content): group 1, NoValue if no match
CodeMatch(text) ==
    Bind(text, LAMBDA v :
    Bind(FirstOf({p \in Occurrences(v, "Course Code:") : IsCodeAt(v, SkipSpaces(v, p + 12))}),
         LAMBDA p :
        IF p = 0 THEN NoValue
        ELSE Bind(SkipSpaces(v, p + 12), LAMBDA j : SubSeq(v, j, j + 5))))

\* re.search(r'Course URL:\s*(https?://[^\s]+)', content): group 1, NoValue if no match
UrlMatch(text) ==
    Bind(text, LAMBDA v :
    Bind(FirstOf({p \in Occurrences(v, "Course URL:") : UrlEndAt(v, SkipSpaces(v, p + 11)) # 0}),
         LAMBDA p :
        IF p = 0 THEN NoValue
        ELSE Bind(SkipSpaces(v, p + 11), LAMBDA j : SubSeq(v, j, UrlEndAt(v, j) - 1))))

\* lines 105-129: the files from the i-th on; what they add to courses and to the error log
RECURSIVE LoadFrom(_, _)
LoadFrom(files, i) ==
    IF i > Len(files) THEN [courses |-> <<>>, errors |-> <<>>]
    ELSE Bind(LoadFrom(files, i + 1), LAMBDA rest :
         IF ~files[i].readable
         THEN [rest EXCEPT !.errors = <<"Error loading " \o files[i].name>> \o @]
         ELSE Bind(Join("\n", files[i].content), LAMBDA text :
              Bind(CodeMatch(text), LAMBDA code :
              Bind(UrlMatch(text), LAMBDA url :
                  IF code = NoValue \/ url = NoValue THEN rest
                  ELSE [rest EXCEPT !.courses =
                           <<[code |-> code, file |-> i, url |-> url,
                              content |-> files[i].content]>> \o @]))))

load_course_files(dir, files) ==
    IF dir \in {"missing", "no_courses_dir"}
    THEN [courses |-> <<>>, errors |-> <<"Courses directory not found">>]
    ELSE IF dir = "unreadable" THEN [courses |-> <<>>, errors |-> <<>>]
    ELSE LoadFrom(files, 1)

(***************************************************************************)
(* CourseScraper.scrape_all_courses, as main() runs it.  A course is       *)
(* scraped by scrape_course (SpecCrawl has its steps); here a scrape is    *)
(* one step that returns a results dict or raises.                         *)
(***************************************************************************)
MaxFiles == 3

\* lines 500-501: courses[:limit] under "if limit"
Limited(loaded, lim) ==
    IF lim = <<>> \/ lim[1] = 0 THEN loaded
    ELSE IF lim[1] > 0
    THEN SubSeq(loaded, 1, IF lim[1] < Len(loaded) THEN lim[1] ELSE Len(loaded))
    ELSE SubSeq(loaded, 1, IF Len(loaded) + lim[1] > 0 THEN Len(loaded) + lim[1] ELSE 0)

\* lines 505-512
NewSummary(n) ==
    [total |-> n, successful |-> 0, failed |-> 0, total_textbooks |-> 0,
     total_recitations |-> 0, total_homeworks |-> 0]

\* what scrape_course does for a course: it raises, or it returns results
CrawlOutcomes(c) ==
    {[raised |-> TRUE, results |-> EmptyResults(c.code, c.url)],
     [raised |-> FALSE,
      results |-> [EmptyResults(c.code, c.url) EXCEPT
                      !.errors = <<FetchFailedError(try_alternative_urls(c.code, c.url))>>]],
     [raised |-> FALSE,
      results |-> [EmptyResults(c.code, c.url) EXCEPT
                      !.homeworks = <<FoundLink(c.url \o "hw1.pdf", "Homework 1",
                                                "homework_pdf_pdf", "hw1.pdf")>>]]}

\* lines 523-531: the summary after one iteration of the loop
\* mutant: the except branch counts nothing
Tally_failureLost(summary, out) ==
    IF out.raised THEN summary
    ELSE [summary EXCEPT !.successful = @ + 1,
                         !.total_textbooks = @ + Len(out.results.textbooks),
                         !.total_recitations = @ + Len(out.results.recitations),
                         !.total_homeworks = @ + Len(out.results.homeworks)]

Tally(summary, out) ==
    IF out.raised THEN [summary EXCEPT !.failed = @ + 1]
    ELSE [summary EXCEPT !.successful = @ + 1,
                         !.total_textbooks = @ + Len(out.results.textbooks),
                         !.total_recitations = @ + Len(out.results.recitations),
                         !.total_homeworks = @ + Len(out.results.homeworks)]

\* entries of batch_log
Called(what, i) == [ev |-> what, i |-> i, msg |-> ""]
LoggedError(msg) == [ev |-> "error", i |-> 0, msg |-> msg]
ErrorsOf(msgs) == [k \in 1..Len(msgs) |-> LoggedError(msgs[k])]

\* datetime.now().isoformat() on the given day
DayStamps == <<"2026-01-05T02:00:07.120001", "2026-01-06T02:00:09.450002",
               "2026-01-07T02:00:08.000003", "2026-01-08T02:00:08.000004">>

\* lines 68-95, CourseScraper(): books_dir.mkdir(exist_ok=True) raises
\* FileNotFoundError when data/ does not exist
Construct ==
    /\ bpc = "start"
    /\ IF data_dir = "missing"
       THEN /\ bpc' = "raised"
            /\ batch_log' = Append(batch_log, Called("raise", 0))
       ELSE /\ bpc' = "constructed"
            /\ UNCHANGED batch_log
    /\ UNCHANGED <<data_dir, course_files, limit, courses, bi, results_summary,
                   classifyVars, storeVars, crawlVars, updateVars, schedVars, retryVars>>

\* lines 498-512
LoadCourses ==
    /\ bpc = "constructed"
    /\ \E loaded \in {load_course_files(data_dir, course_files)} :
          /\ courses' = Limited(loaded.courses, limit)
          /\ batch_log' = batch_log \o ErrorsOf(loaded.errors)
    /\ results_summary' = NewSummary(Len(courses'))
    /\ bi' = 1
    /\ bpc' = "loop"
    /\ UNCHANGED <<data_dir, course_files, limit,
                   classifyVars, storeVars, crawlVars, updateVars, schedVars, retryVars>>

\* lines 514-531: one iteration of the loop over the courses
CourseIteration ==
    /\ bpc = "loop" /\ bi <= Len(courses)
    /\ \E out \in CrawlOutcomes(courses[bi]), written \in BOOLEAN :
          /\ out.raised => written
          /\ results_summary' = Tally(results_summary, out)
          /\ IF out.raised
             THEN /\ batch_log' = batch_log \o
                        <<Called("scrape_course", bi), LoggedError("Error scraping course")>>
                  /\ UNCHANGED course_files
             ELSE /\ batch_log' = batch_log \o
                        <<Called("scrape_course", bi), Called("update_course_file", bi)>>
                        \o (IF written THEN <<>>
                            ELSE <<LoggedError("Error updating course file")>>)
                  /\ course_files' =
                        IF written
                        THEN [course_files EXCEPT ![courses[bi].file].content =
                                 NewContent(@, out.results, DayStamps[day + 1])]
                        ELSE course_files
    /\ bi' = bi + 1
    /\ UNCHANGED <<data_dir, limit, courses, bpc,
                   classifyVars, storeVars, crawlVars, updateVars, schedVars, retryVars>>

\* lines 533-543: the summary is logged and returned
FinishBatch ==
    /\ bpc = "loop" /\ bi > Len(courses)
    /\ bpc' = "done"
    /\ UNCHANGED <<data_dir, course_files, limit, courses, bi, results_summary, batch_log,
                   classifyVars, storeVars, crawlVars, updateVars, schedVars, retryVars>>

(***************************************************************************)
(* SpecBatch: one run of main() without --course: CourseScraper() and      *)
(* scrape_all_courses(limit), on a data directory in any of its states.    *)
(***************************************************************************)
CourseFile(name, readable, lines) == [name |-> name, readable |-> readable, content |-> lines]

FileCatalog ==
    {CourseFile("15-213.txt", TRUE,
                <<"Course Code: 15-213", "Course URL: https://www.cs.cmu.edu/~213/",
                  "Units: 12", "">>),
     CourseFile("15-122.txt", TRUE,
                <<"Course Code: 15-122", "Course URL: https://cs.example.edu/course/", "">>),
     CourseFile("15-451.txt", TRUE, <<"Course Code: 15-451", "Course URL: see web page", "">>),
     CourseFile("15-410.txt", FALSE, <<"">>)}

\* the directory listings: up to MaxFiles different files, in any order
Listings ==
    UNION {{l \in [1..n -> FileCatalog] : \A i, j \in 1..n : l[i] = l[j] => i = j} :
           n \in 0..MaxFiles}

Limits == {<<>>, <<0>>, <<1>>}

InitBatch ==
    /\ data_dir \in {"ok", "missing", "no_courses_dir", "unreadable"}
    /\ course_files \in IF data_dir \in {"ok", "unreadable"} THEN Listings ELSE {<<>>}
    /\ limit \in Limits
    /\ courses = <<>> /\ bi = 0 /\ batch_log = <<>>
    /\ results_summary = NewSummary(0)
    /\ bpc = "start"
    /\ SchedIdle /\ RetryIdle /\ StoreIdle /\ CrawlIdle /\ ClassifyIdle /\ UpdateIdle

NextBatch == Construct \/ LoadCourses \/ CourseIteration \/ FinishBatch

SpecBatch == InitBatch /\ [][NextBatch]_vars

(***************************************************************************)
(* Claims about scrape_all_courses (under SpecBatch).                      *)
(***************************************************************************)
\* the courses scrape_course was called for, in order (as indices of courses)
ScrapedInOrder ==
    LET calls == SelectSeq(batch_log, LAMBDA e : e.ev = "scrape_course")
    IN  [k \in 1..Len(calls) |-> calls[k].i]
CountLogged(msg) ==
    Cardinality({k \in 1..Len(batch_log) :
                    batch_log[k].ev = "error" /\ batch_log[k].msg = msg})
CountCalled(what) == Cardinality({k \in 1..Len(batch_log) : batch_log[k].ev = what})
EveryCourseOnce == ScrapedInOrder = [k \in 1..Len(courses) |-> k]

\* C11 (as stated): when the batch ends every loaded course was scraped
\* exactly once, successful + failed = total, and every exception raised
\* while scraping or while updating a course was counted as a failure.
C11_Original ==
    bpc = "done" =>
        /\ EveryCourseOnce
        /\ results_summary.successful + results_summary.failed = results_summary.total
        /\ results_summary.failed =
              CountLogged("Error scraping course") + CountLogged("Error updating course file")

\* C11 (amended): when the batch ends every loaded course was scraped exactly
\* once, successful + failed = total, and failed counts the exceptions that
\* scrape_course raised; an exception raised while updating is caught and
\* logged inside update_course_file and the course counts as successful.
C11_FailureIsolation ==
    /\ bpc = "done" =>
          /\ EveryCourseOnce
          /\ results_summary.total = Len(courses)
          /\ results_summary.successful + results_summary.failed = results_summary.total
          /\ results_summary.failed = CountLogged("Error scraping course")
          /\ results_summary.successful = CountCalled("update_course_file")
    /\ bpc = "raised" => courses = <<>> /\ CountCalled("scrape_course") = 0

\* the batch ended; the first course raised, a later one was scraped and
\* counted successful although its update failed
C11_Witness ==
    /\ bpc = "done" /\ Len(courses) >= 2
    /\ results_summary.failed >= 1 /\ results_summary.successful >= 1
    /\ batch_log[1] = Called("scrape_course", 1)
    /\ batch_log[2] = LoggedError("Error scraping course")
    /\ CountLogged("Error updating course file") >= 1
    /\ CountLogged("Error updating course file") = results_summary.successful

BatchOver == bpc \in {"done", "raised"}
\* no course file was rewritten
NoFileTouched == CountCalled("update_course_file") = 0

\* C19: when the course directory is missing or unreadable, creating the
\* scraper and running the batch raises nothing, logs the problem, returns a
\* summary with total 0 and modifies no course file.
C19_EmptyResultNoRaise ==
    (data_dir # "ok" /\ BatchOver) =>
        /\ bpc = "done"
        /\ results_summary.total = 0
        /\ \E k \in 1..Len(batch_log) : batch_log[k].ev = "error"
        /\ NoFileTouched

(***************************************************************************)
(* scraper_scheduler.py: main() registers run_scraper for every day at     *)
(* 02:00 and loops over schedule.run_pending() and time.sleep(60).  day    *)
(* counts the 02:00 instants the loop has seen; a run is over before the   *)
(* next one.  runs has one entry for each call of run_scraper; batch_log   *)
(* holds the events of the current run.                                    *)
(***************************************************************************)
MaxDays == 2

\* lines 22-27 without the try/except: the exception leaves run_scraper
run_scraper_noExcept(b) == IF b = "raised" THEN "propagated" ELSE "completed"

\* lines 22-27: how run_scraper ends when the batch is in state b
run_scraper(b) == IF b = "raised" THEN "error logged" ELSE "completed"

\* line 45, repeated until the job is due: the clock reaches 02:00
TwoAM ==
    /\ sched_pc = "waiting" /\ day < MaxDays
    /\ day' = day + 1
    /\ sched_pc' = "due"
    /\ UNCHANGED <<runs, batchVars, classifyVars, storeVars, crawlVars, updateVars, retryVars>>

\* line 44: run_pending() calls run_scraper, which is about to construct a
\* CourseScraper on the data directory as it is on that day
RunPending ==
    /\ sched_pc = "due"
    /\ sched_pc' = "running"
    /\ runs' = Append(runs, [day |-> day, outcome |-> "started"])
    /\ data_dir' \in {"ok", "missing", "no_courses_dir"}
    /\ bpc' = "start"
    /\ courses' = <<>> /\ bi' = 0 /\ batch_log' = <<>>
    /\ results_summary' = NewSummary(0)
    /\ UNCHANGED <<day, course_files, limit,
                   classifyVars, storeVars, crawlVars, updateVars, retryVars>>

\* lines 25-27: the batch returned or raised; run_scraper logs and returns,
\* the job is rescheduled and the loop sleeps again
RunReturns ==
    /\ sched_pc = "running" /\ bpc \in {"done", "raised"}
    /\ \E how \in {run_scraper(bpc)} :
          /\ runs' = [runs EXCEPT ![Len(runs)].outcome = how]
          /\ sched_pc' = IF how = "propagated" THEN "crashed" ELSE "waiting"
    /\ bpc' = "idle"
    /\ UNCHANGED <<day, data_dir, course_files, limit, courses, bi, results_summary,
                   batch_log, classifyVars, storeVars, crawlVars, updateVars, retryVars>>

\* lines 46-47: Ctrl+C is no Exception, so it passes run_scraper's except
\* clause as well and ends the loop
KeyboardInterrupt ==
    /\ sched_pc \in {"waiting", "due", "running"}
    /\ sched_pc' = "stopped"
    /\ UNCHANGED <<day, runs, batchVars, classifyVars, storeVars, crawlVars, updateVars,
                   retryVars>>

\* the steps of the batch inside run_scraper
BatchStep ==
    /\ sched_pc = "running"
    /\ (Construct \/ LoadCourses \/ CourseIteration \/ FinishBatch)

\* line 33 has run; the course files on disk are any listing of up to two files
InitScheduler ==
    /\ sched_pc = "waiting" /\ day = 0 /\ runs = <<>>
    /\ data_dir = "ok"
    /\ course_files \in {l \in Listings : Len(l) <= 2}
    /\ limit = <<>>
    /\ courses = <<>> /\ bi = 0 /\ batch_log = <<>>
    /\ results_summary = NewSummary(0)
    /\ bpc = "idle"
    /\ RetryIdle /\ StoreIdle /\ CrawlIdle /\ ClassifyIdle /\ UpdateIdle

NextScheduler == TwoAM \/ RunPending \/ BatchStep \/ RunReturns \/ KeyboardInterrupt

SpecScheduler == InitScheduler /\ [][NextScheduler]_vars

\* the loop of lines 43-45 and the sequential code under it keep running;
\* nothing forces the clock or the user
SpecSchedulerLive ==
    /\ SpecScheduler
    /\ WF_vars(RunPending) /\ WF_vars(BatchStep) /\ WF_vars(RunReturns)

(***************************************************************************)
(* Claims about the scheduler (under SpecSchedulerLive).                   *)
(***************************************************************************)
\* no exception has ended the loop, and no 02:00 was left without its run
SchedulerAlive ==
    /\ sched_pc \in {"waiting", "due", "running", "stopped"}
    /\ \A k \in 1..Len(runs) : runs[k].day = k
    /\ sched_pc \in {"waiting", "running"} => Len(runs) = day
    /\ sched_pc = "due" => Len(runs) = day - 1
    /\ \A k \in 1..Len(runs) :
          (k < Len(runs) \/ sched_pc = "waiting") =>
              runs[k].outcome \in {"completed", "error logged"}

\* an exception only ends a batch before its first course
RaisedOnlyInConstructor == bpc = "raised" => courses = <<>> /\ bi = 0

\* C18: a batch that reached its loop runs to completion whatever the courses
\* do; no exception of a run (the constructor's included) ends the scheduler
\* loop: it is logged in run_scraper, the loop waits again, and every later
\* due run is started (unless the user stops the scheduler).
C18_SchedulerSurvives ==
    /\ [](SchedulerAlive /\ RaisedOnlyInConstructor)
    /\ (sched_pc = "running" /\ bpc = "loop") ~> (bpc = "done" \/ sched_pc = "stopped")
    /\ (sched_pc = "running") ~> (sched_pc \in {"waiting", "stopped"})
    /\ (sched_pc = "due") ~> (sched_pc \in {"running", "stopped"})

\* the first run raised in the constructor; the second run was started all the
\* same, one of its courses raised, and the batch went on to the next course
C18_Witness ==
    /\ Len(runs) = 2 /\ runs[1].outcome = "error logged"
    /\ sched_pc = "running" /\ bpc = "loop" /\ bi = 2 /\ Len(courses) = 2
    /\ results_summary.failed = 1

(***************************************************************************)
(* One call of fetch_page for a URL that is not in scraped_urls, with the  *)
(* attempts that session.get makes through the mounted HTTPAdapter: the    *)
(* Retry object counts every retried attempt against total, whether the   *)
(* attempt ended in a connection error or in a status of the forcelist.    *)
(* Replies carry no Retry-After header.                                    *)
(***************************************************************************)
MAX_RETRIES == 3

\* line 83
status_forcelist == {429, 500, 502, 503, 504}

\* what one attempt can end in: no connection (the name does not resolve), or
\* an HTTP response; a "garbage" body is one that both parsers reject
Replies ==
    {[kind |-> "dns", status |-> 0, body |-> ""],
     [kind |-> "http", status |-> 200, body |-> "garbage"]}
        \cup {[kind |-> "http", status |-> st, body |-> "html"] :
                 st \in {200, 403, 404, 429, 500, 503}}

\* urllib3 retries an attempt that ended like this (while the budget lasts)
is_retry(reply) == reply.kind = "dns" \/ reply.status \in status_forcelist

\* lines 143-160 for a response that session.get returned
AfterGet(reply) ==
    IF reply.status >= 400 THEN NoValue
    ELSE IF reply.body = "garbage" THEN NoValue
    ELSE "soup"

\* line 142: an attempt is sent; the network answers it in some way
Request ==
    /\ fetch_ret = NotCalled /\ server = <<>>
    /\ \E reply \in Replies : server' = <<reply>>
    /\ UNCHANGED <<attempts, fetch_ret, batchVars, schedVars,
                   classifyVars, storeVars, crawlVars, updateVars>>

\* lines 80-87 and 142-160: the attempt ends; it is retried, or session.get
\* raises (budget used up) or returns and fetch_page returns
Respond ==
    /\ server # <<>>
    /\ attempts' = Append(attempts, server[1])
    /\ server' = <<>>
    /\ fetch_ret' =
          IF is_retry(server[1])
          THEN IF Len(attempts) < MAX_RETRIES THEN NotCalled ELSE NoValue
          ELSE AfterGet(server[1])
    /\ UNCHANGED <<batchVars, schedVars, classifyVars, storeVars, crawlVars, updateVars>>

InitRetry ==
    /\ RetryIdle
    /\ BatchIdle /\ SchedIdle /\ StoreIdle /\ CrawlIdle /\ ClassifyIdle /\ UpdateIdle

NextRetry == Request \/ Respond

SpecRetry == InitRetry /\ [][NextRetry]_vars

(***************************************************************************)
(* Claims about the retries of fetch_page (under SpecRetry).               *)
(***************************************************************************)
IsTransient(reply) == reply.kind = "http" /\ reply.status \in {429, 500, 502, 503, 504}
IsPermanent(reply) ==
    \/ reply.kind = "dns"
    \/ reply.kind = "http" /\ reply.status >= 400 /\ reply.status < 500 /\ reply.status # 429
    \/ reply.kind = "http" /\ reply.status < 400 /\ reply.body = "garbage"

\* C14: when fetch_page has returned, a URL that failed transiently at every
\* attempt was attempted at most 1 + 3 times and null was returned, and a URL
\* whose first attempt failed permanently (DNS failure, 4xx other than 429,
\* malformed content) was attempted exactly once and null was returned.
C14_RetryBudget ==
    fetch_ret # NotCalled =>
        /\ (\A k \in 1..Len(attempts) : IsTransient(attempts[k])) =>
              Len(attempts) <= 1 + 3 /\ fetch_ret = NoValue
        /\ IsPermanent(attempts[1]) => Len(attempts) = 1 /\ fetch_ret = NoValue

(***************************************************************************)
(* The rule order of classify_link (under SpecClassify).                   *)
(***************************************************************************)
\* which of the four keyword sets have a keyword occurring in s, whatever the
\* letter case of s
Mentions(s) ==
    Bind(Lower(s), LAMBDA v :
        [hw |-> AnyKw(v, HOMEWORK_KEYWORDS), rec |-> AnyKw(v, RECITATION_KEYWORDS),
         book |-> AnyKw(v, TEXTBOOK_KEYWORDS), lec |-> AnyKw(v, LECTURE_KEYWORDS)])

\* the rules in their order, each with the category it gives and whether it
\* matches the call; the PDF rule is the first five rows
RuleTable ==
    Bind(Contains(Lower(cl_in.url), ".pdf"), LAMBDA isPdf :
    Bind(Mentions(cl_in.text), LAMBDA t :
    Bind(Mentions(cl_in.href), LAMBDA h :
        <<[cat |-> "textbook_pdf", hit |-> isPdf /\ t.book],
          [cat |-> "homework_pdf", hit |-> isPdf /\ t.hw],
          [cat |-> "recitation_pdf", hit |-> isPdf /\ t.rec],
          [cat |-> "lecture_pdf", hit |-> isPdf /\ t.lec],
          [cat |-> "pdf", hit |-> isPdf],
          [cat |-> "homework", hit |-> t.hw \/ h.hw],
          [cat |-> "recitation", hit |-> t.rec \/ h.rec],
          [cat |-> "textbook", hit |-> t.book \/ h.book],
          [cat |-> "lecture", hit |-> t.lec \/ h.lec],
          [cat |-> "other", hit |-> TRUE]>>)))

\* C21: classify_link returns the category of the first rule that matches, in
\* the order PDF rule (by link text only: textbook, homework, recitation,
\* lecture, else pdf), homework, recitation, textbook, lecture (a keyword
\* occurring in text or href, in any letter case), else other.
C21_FirstRuleWins ==
    ClassifyReturned =>
        \E rules \in {RuleTable} : \E k \in 1..Len(rules) :
            /\ rules[k].hit
            /\ \A j \in 1..(k - 1) : ~rules[j].hit
            /\ cl_out = rules[k].cat

\* a link whose text matches the textbook rule and whose href matches the
\* homework rule in upper case only: the homework rule comes first
C21_Witness ==
    /\ ClassifyReturned
    /\ cl_in.text = "Textbook" /\ cl_in.href = "/HW/index.html"
    /\ RuleTable[6].hit /\ RuleTable[8].hit
    /\ cl_out = "homework"

(***************************************************************************)
(* The landing-page pass of scrape_course (under SpecCrawl).               *)
(***************************************************************************)
\* a step of the landing-page loop
LandingStep == pc = "landing" /\ li' = li + 1

\* the precedence of the landing-page pass for a link as find_all_links
\* returned it: the bucket of the first row that matches
BucketTable(link) ==
    Bind(link.type, LAMBDA cat :
    Bind(Mentions(link.text \o " " \o link.url), LAMBDA scan :
    Bind(cat \in PdfCategories \/ Contains(Lower(link.url), ".pdf"), LAMBDA isPdf :
        <<[key |-> "textbooks",
           hit |-> \/ cat \in {"textbook", "textbook_pdf"}
                   \/ (cat \in PdfCategories /\ Contains(Lower(link.text), "book"))],
          [key |-> "recitations", hit |-> cat \in {"recitation", "recitation_pdf"}],
          [key |-> "homeworks", hit |-> cat \in {"homework", "homework_pdf"}],
          [key |-> "lectures", hit |-> cat \in {"lecture", "lecture_pdf"}],
          [key |-> "homeworks", hit |-> isPdf /\ scan.hw],
          [key |-> "recitations", hit |-> isPdf /\ scan.rec],
          [key |-> "textbooks", hit |-> isPdf /\ scan.book],
          [key |-> "lectures", hit |-> isPdf /\ scan.lec],
          [key |-> "other_links", hit |-> TRUE]>>)))

ExpectedBucket(link) ==
    Bind(BucketTable(link), LAMBDA rows :
        rows[CHOOSE k \in 1..Len(rows) :
                 rows[k].hit /\ \A j \in 1..(k - 1) : ~rows[j].hit].key)

\* C22: every step of the landing-page loop appends the link to the bucket
\* the precedence gives for its category, text and URL, and to no other; a
\* homework_pdf link goes to homeworks whether or not its download succeeded.
C22_LandingPrecedence ==
    [][LandingStep =>
          \E key \in {ExpectedBucket(links[li])} :
              /\ results'[key] = Append(results[key], links'[li])
              /\ \A other \in BucketKeys \ {key} : results'[other] = results[other]
              /\ links[li].type = "homework_pdf" => key = "homeworks"]_vars

\* the crawl is over: a homework_pdf link whose download failed is in
\* homeworks, a PDF link without a keyword in its text is there too because
\* of its URL, and a PDF link without any keyword is in other_links
C22_Witness ==
    /\ pc = "done"
    /\ \E e \in EntriesOf("homeworks") : e.type = "homework_pdf" /\ e.local_filename = NoValue
    /\ \E e \in EntriesOf("homeworks") : e.type = "pdf" /\ e.text = "Solutions"
    /\ \E e \in EntriesOf("other_links") : e.type = "pdf"

\* every link dict of the results
ResultEntries == UNION {EntriesOf(key) : key \in BucketKeys}

\* C23: a landing-page link whose download succeeded carries its local file
\* name and a category with the _pdf suffix exactly once, so the category of
\* every link of the results is one of the ten enumerated categories.
C23_SuffixOnce ==
    \A e \in ResultEntries :
        /\ e.type \in Categories
        /\ e.local_filename # NoValue =>
              (EndsWith(e.type, "_pdf") /\ ~EndsWith(e.type, "_pdf_pdf"))

(***************************************************************************)
(* The sub-page fan-out of scrape_course (under SpecCrawl).                *)
(***************************************************************************)
\* the links of the current sub-page that its loop has dealt with
MergedSubLinks ==
    {i \in 1..Len(sub_links) : pc \in {"fanout", "done"} \/ (pc = "sublinks" /\ i < si)}

\* C24: every link of a fetched sub-page whose resolved URL has the .pdf
\* extension is passed to download_file, also when no keyword is in its text
\* (category pdf).
C24_SubPagePdfsDownloaded ==
    \A i \in MergedSubLinks :
        EndsWith(Lower(UrlPath(sub_links[i].url)), ".pdf") => Downloaded(sub_links[i].url)

\* the lists the fan-out merges into
MergedKeys == {"textbooks", "recitations", "homeworks"}

\* C25: none of the textbooks, recitations and homeworks lists holds two
\* entries with the same URL and the same text, wherever the link was found.
C25_NoDuplicateEntries ==
    \A key \in MergedKeys : \A i, j \in 1..Len(results[key]) :
        (results[key][i].url = results[key][j].url
            /\ results[key][i].text = results[key][j].text) => i = j

\* C26: no step of the fan-out changes the lectures list, other_links,
\* errors, the resolved URL or the course code of the results, also when a
\* sub-page holds lecture links.
C26_FanOutFrame ==
    [][(pc = "fanout" \/ pc = "sublinks") =>
          /\ (results').lectures = results.lectures
          /\ (results').other_links = results.other_links
          /\ (results').errors = results.errors
          /\ (results').url = results.url
          /\ (results').code = results.code]_vars

\* a sub-page was merged: one of its links is in homeworks now, its lecture
\* link is in no list
C26_Witness ==
    /\ pc = "fanout"
    /\ \E i \in 1..Len(sub_links) : sub_links[i] \in EntriesOf("homeworks")
    /\ \E i \in 1..Len(sub_links) :
          /\ sub_links[i].type = "lecture"
          /\ BucketsHolding(sub_links[i]) = {}

(***************************************************************************)
(* More claims about scrape_all_courses (under SpecBatch).                 *)
(***************************************************************************)
\* the number of courses load_course_files finds on disk
LoadedCount == Len(load_course_files(data_dir, course_files).courses)

\* C27: a batch with the count limit n, 0 included, scrapes and updates at
\* most n courses, and its summary has total = min(n, courses loaded).
C27_LimitRespected ==
    (limit # <<>> /\ bpc \in {"loop", "done"}) =>
        /\ CountCalled("scrape_course") <= limit[1]
        /\ CountCalled("update_course_file") <= limit[1]
        /\ bi = 1 => results_summary.total =
                        IF limit[1] < LoadedCount THEN limit[1] ELSE LoadedCount

(***************************************************************************)
(* Failed downloads (under SpecDownload).                                  *)
(***************************************************************************)
\* C28: a download_file call that returns None leaves the content store as it
\* was, so no file of the store is a partial one and a call never
\* short-circuits on a file that a failed call left behind.
C28_NullLeavesStore ==
    [][(Len(dl_calls') = Len(dl_calls) + 1) =>
          LET call == dl_calls'[Len(dl_calls')]
          IN  /\ call.ret = NoValue => books_dir' = books_dir
              /\ \A f \in books_dir' : f.complete
              /\ call.existed =>
                    \A i \in 1..Len(dl_calls) :
                        dl_calls[i].filename = call.filename => dl_calls[i].ret # NoValue]_vars

(***************************************************************************)
(* SpecIsolation: the courses of a batch share one CourseScraper, and with *)
(* it one scraped_urls set and one content store (lines 514-521).  Two     *)
(* executions on the same web and the same empty store follow each other:  *)
(* first a scraper that has only the course B to scrape, then a scraper    *)
(* that scrapes A and then B.  upd_results keeps the results the first     *)
(* execution handed to update_course_file.  Every request is answered.     *)
(***************************************************************************)
\* 15-213 and 18-213 are cross-listed: both course files name the same page
BatchCourses == Courses \cup {[code |-> "18-213", url |-> "https://www.cs.cmu.edu/~213/"]}

InitIsolation ==
    /\ courses \in {p \in BatchCourses \X BatchCourses : p[1] # p[2]}
    /\ course = courses[2]
    /\ site \in LandingPages
    /\ bpc = "alone" /\ bi = 0
    /\ scraped_urls = {} /\ books_dir = {} /\ clock = 1000
    /\ net_log = <<>> /\ dl_calls = <<>> /\ writes = <<>>
    /\ pc = "idle" /\ results = EmptyResults("", "")
    /\ urls_to_try = <<>> /\ cand = 0 /\ links = <<>> /\ li = 0 /\ pg = 0
    /\ sub_links = <<>> /\ si = 0 /\ fetch_calls = <<>>
    /\ data_dir = "ok" /\ course_files = <<>> /\ limit = <<>> /\ batch_log = <<>>
    /\ results_summary = NewSummary(0)
    /\ ClassifyIdle /\ UpdateIdle /\ SchedIdle /\ RetryIdle

\* the steps of scrape_course for the current course
CrawlStep == bpc \in {"alone", "loop"} /\ NextCrawl

\* the locals of scrape_course before its next call
FreshCall ==
    /\ pc' = "idle" /\ results' = EmptyResults("", "")
    /\ urls_to_try' = <<>> /\ cand' = 0 /\ links' = <<>> /\ li' = 0 /\ pg' = 0
    /\ sub_links' = <<>> /\ si' = 0 /\ fetch_calls' = <<>>

\* the first execution is over; the second one starts with a new
\* CourseScraper (line 95) on the store as it was, and its first course
SecondExecution ==
    /\ bpc = "alone" /\ pc = "done"
    /\ upd_results' = results
    /\ bpc' = "loop" /\ bi' = 1 /\ course' = courses[1]
    /\ scraped_urls' = {} /\ books_dir' = {} /\ clock' = 1000
    /\ net_log' = <<>> /\ dl_calls' = <<>> /\ writes' = <<>>
    /\ FreshCall
    /\ UNCHANGED <<site, content, n_updates, data_dir, course_files, limit, courses,
                   results_summary, batch_log, classifyVars, schedVars, retryVars>>

\* lines 514-521: the loop goes on to the next course; the scraper object,
\* and so scraped_urls and the store, stay
NextCourse ==
    /\ bpc = "loop" /\ pc = "done" /\ bi < Len(courses)
    /\ bi' = bi + 1 /\ course' = courses[bi + 1]
    /\ FreshCall
    /\ UNCHANGED <<scraped_urls, site, storeVars, updateVars, data_dir, course_files,
                   limit, courses, bpc, results_summary, batch_log, classifyVars,
                   schedVars, retryVars>>

NextIsolation == CrawlStep \/ SecondExecution \/ NextCourse

SpecIsolation == InitIsolation /\ [][NextIsolation]_vars

\* C29: in a batch the results of a course are the same as when the course
\* is scraped on its own, whatever was scraped before it with the same
\* scraper, also when a URL of the course was fetched for an earlier course.
C29_Independent ==
    (bpc = "loop" /\ bi = 2 /\ pc = "done") => results = upd_results

(***************************************************************************)
(* Termination of scrape_course.  The function is sequential code: while   *)
(* it has a step to take it takes one.                                     *)
(***************************************************************************)
\* the crawls of the sites whose sub-pages link on and back to the site
InitCrawlLive ==
    /\ InitCrawl
    /\ \E i \in 1..Len(site) : site[i].href \in {"schedule.html", "hw/"}

SpecCrawlLive == InitCrawlLive /\ [][NextCrawl]_vars /\ WF_vars(NextCrawl)

\* the URLs of the landing page's links
LandingUrls == {links[i].url : i \in 1..Len(links)}

\* only links of the landing page are fetched as sub-pages; a sub-page that
\* was fetched is not requested and not returned again; and at most one
\* fetch_page call is made for each candidate and for each pair of a page
\* name and a landing-page link
BoundedFanOut ==
    /\ \A i \in 1..Len(fetch_calls) :
          fetch_calls[i].phase = "subpage" => fetch_calls[i].url \in LandingUrls
    /\ \A i, j \in 1..Len(fetch_calls) :
          (i < j /\ fetch_calls[i].ok /\ fetch_calls[i].url = fetch_calls[j].url)
              => (~fetch_calls[j].ok /\ ~fetch_calls[j].requested)
    /\ Len(fetch_calls) <= Len(urls_to_try) + Len(common_pages) * Len(links)
    /\ Len(common_pages) = 10

\* C30: scrape_course terminates, also when the pages link to each other: it
\* fetches only links of the landing page, never fetches or merges a fetched
\* sub-page again, and makes at most (candidates + 10 * landing-page links)
\* fetch_page calls.
C30_Terminates == []BoundedFanOut /\ <>(pc = "done")

\* the crawl is over; a sub-page that links on and back to the site was
\* fetched, and the link to a further page that was found on it was merged
\* but never fetched, although it matches a page name
C30_Witness ==
    /\ pc = "done"
    /\ \E i \in 1..Len(fetch_calls) :
          /\ fetch_calls[i].phase = "subpage" /\ fetch_calls[i].ok
          /\ EndsWith(fetch_calls[i].url, "/schedule.html")
    /\ \E e \in EntriesOf("homeworks") :
          /\ e.href = "hw/" /\ e.url \notin LandingUrls
          /\ PagesMatching(e) # {}
          /\ \A k \in 1..Len(fetch_calls) : fetch_calls[k].url # e.url

====
